---- MODULE Spec2Model ----
(***************************************************************************)
(* rest-shape: the query compiler (parseQuery) and the shaping engine      *)
(* (shape) of src/src/index.ts, as a state machine.                        *)
(*                                                                         *)
(* A JavaScript string is a sequence of symbols: a symbol is a whole word  *)
(* (a maximal run of \w characters, e.g. "name"), one punctuation mark     *)
(* ("." "{" ":"), one operator ("||" "===" ">") or a blank " ".  Object    *)
(* keys are strings, hence sequences of symbols too.                       *)
(***************************************************************************)
EXTENDS Integers, Sequences, FiniteSets, TLC

VARIABLES
    heap,       \* objects of the caller's data that are held by reference
    data,       \* shape's first argument
    query,      \* shape's second argument: a query text or a pre-built tree
    fragments,  \* shape's third argument: the fragment registry, or undefined
    pc,         \* position of the top-level shape call
    queryObj,   \* the Query Tree shape walks (parsed or as passed in)
    result,     \* the object the top-level call is building
    fi,         \* index of the next entry of queryObj.__fragments
    ki,         \* index of the next key of queryObj
    lines,      \* parseQuery: the lines of the query text
    li,         \* parseQuery: index of the next line
    parser      \* parseQuery: the trees under construction and the block stack

vars == <<heap, data, query, fragments, pc, queryObj, result, fi, ki, lines, li, parser>>

(***************************************************************************)
(* Bounds of the model.                                                    *)
(***************************************************************************)
\* frames a recursion over the data may use before the engine raises
\* RangeError (maximum call stack size exceeded)
MaxCallDepth == 6
\* largest skip / limit argument drawn for an array block
MaxPage == 2

(***************************************************************************)
(* JavaScript values.                                                      *)
(***************************************************************************)
Null == [t |-> "null"]
Undef == [t |-> "undef"]
Bool(b) == [t |-> "bool", b |-> b]
Num(n) == [t |-> "num", n |-> n]
Str(s) == [t |-> "str", s |-> s]
\* an object: its own enumerable properties in insertion order
Obj(kv) == [t |-> "obj", kv |-> kv]
\* an array: its items, and the named properties assigned to it
Arr(items) == [t |-> "arr", items |-> items, kv |-> <<>>]
\* a reference to an object of the caller's data
Ref(i) == [t |-> "ref", id |-> i]
\* the closure parseQuery stores for a computed field: its expression and
\* the root it captured (Undef when it uses the root it is called with)
Fn(expr, cap, usesArg) == [t |-> "fn", expr |-> expr, cap |-> cap, usesArg |-> usesArg]
\* an exception in flight
Throw(e) == [t |-> "throw", e |-> e]

\* a one-word string, and a one-word key with its value
W(w) == <<w>>
KV(w, v) == <<W(w), v>>

Deref(v) == IF v.t = "ref" THEN heap[v.id] ELSE v
\* the caller's object number i as the target of property writes: its
\* content with its identity, so that the writes reach the caller's object
Held(i) == [f \in DOMAIN heap[i] \cup {"id"} |-> IF f = "id" THEN i ELSE heap[i][f]]
Own(v) == IF v.t = "ref" THEN Held(v.id) ELSE v
IsHeld(v) == "id" \in DOMAIN v /\ v.t \in {"obj", "arr"}
IsThrow(v) == v.t = "throw"
\* v == null
IsNullish(v) == v.t \in {"null", "undef"}
\* a ?? b
Coalesce(a, b) == IF IsNullish(a) THEN b ELSE a
\* !!v
Truthy(v) ==
    CASE v.t = "bool" -> v.b
      [] v.t = "num" -> v.n # 0
      [] v.t = "str" -> v.s # <<>>
      [] v.t \in {"null", "undef"} -> FALSE
      [] OTHER -> TRUE
\* Array.isArray(v)
IsArray(v) == Deref(v).t = "arr"
\* typeof v === "object" && v !== null
IsObjectLike(v) == Deref(v).t \in {"obj", "arr"}

Range(s) == {s[i] : i \in DOMAIN s}
\* key in o
HasKey(o, k) ==
    LET d == Deref(o)
    IN  d.t \in {"obj", "arr"} /\ \E i \in DOMAIN d.kv : d.kv[i][1] = k
\* o[k], for o not null
GetProp(o, k) ==
    LET d == Deref(o)
    IN  IF HasKey(o, k)
        THEN d.kv[CHOOSE i \in DOMAIN d.kv : d.kv[i][1] = k][2]
        ELSE Undef
\* o[k] = v on a fresh object or array: an existing key keeps its position
SetProp(o, k, v) ==
    IF HasKey(o, k)
    THEN [o EXCEPT !.kv = [i \in DOMAIN o.kv |->
             IF o.kv[i][1] = k THEN <<k, v>> ELSE o.kv[i]]]
    ELSE [o EXCEPT !.kv = Append(o.kv, <<k, v>>)]
\* Object.keys(o)
Keys(o) ==
    LET d == Deref(o)
    IN  IF d.t = "obj" THEN [i \in DOMAIN d.kv |-> d.kv[i][1]] ELSE <<>>
\* the values autoResolve's loop visits: an object's property values in key
\* order, an array's items in index order
Children(o) ==
    LET d == Deref(o)
    IN  IF d.t = "obj" THEN [i \in DOMAIN d.kv |-> d.kv[i][2]]
        ELSE IF d.t = "arr" THEN d.items \o [i \in DOMAIN d.kv |-> d.kv[i][2]]
        ELSE <<>>

(***************************************************************************)
(* Strings.                                                                *)
(***************************************************************************)
RECURSIVE SplitFrom(_, _, _, _)
SplitFrom(s, sep, i, cur) ==
    IF i > Len(s) THEN <<cur>>
    ELSE IF s[i] = sep THEN <<cur>> \o SplitFrom(s, sep, i + 1, <<>>)
    ELSE SplitFrom(s, sep, i + 1, Append(cur, s[i]))
\* s.split(sep)
Split(s, sep) == SplitFrom(s, sep, 1, <<>>)

RECURSIVE TrimLeft(_)
TrimLeft(s) == IF s # <<>> /\ Head(s) = " " THEN TrimLeft(Tail(s)) ELSE s
RECURSIVE TrimRight(_)
TrimRight(s) ==
    IF s # <<>> /\ s[Len(s)] = " " THEN TrimRight(SubSeq(s, 1, Len(s) - 1)) ELSE s
\* s.trim()
Trim(s) == TrimRight(TrimLeft(s))
\* s.includes(c)
Includes(s, c) == \E i \in DOMAIN s : s[i] = c

(***************************************************************************)
(* Path Resolver.                                                          *)
(***************************************************************************)
RECURSIVE PathReduce(_, _, _)
PathReduce(acc, segs, i) ==
    IF i > Len(segs) THEN acc
    ELSE PathReduce(IF IsNullish(acc) THEN Undef ELSE GetProp(acc, segs[i]), segs, i + 1)

getByPath(obj, path) == Coalesce(PathReduce(obj, Split(path, "."), 1), Null)

RECURSIVE autoResolveAt(_, _, _)
RECURSIVE autoResolveIn(_, _, _, _)
\* a search that takes a direct match of any child before it descends
autoResolveInDirect(vals, key, depth, i) ==
    IF i > Len(vals) THEN Null
    ELSE IF \E j \in i..Len(vals) : IsObjectLike(vals[j]) /\ ~IsNullish(GetProp(vals[j], key))
    THEN GetProp(vals[CHOOSE j \in i..Len(vals) :
                        /\ IsObjectLike(vals[j]) /\ ~IsNullish(GetProp(vals[j], key))
                        /\ \A m \in i..(j - 1) :
                              ~(IsObjectLike(vals[m]) /\ ~IsNullish(GetProp(vals[m], key)))],
                 key)
    ELSE IF IsObjectLike(vals[i]) /\ autoResolveAt(vals[i], key, depth + 1) # Null
    THEN autoResolveAt(vals[i], key, depth + 1)
    ELSE autoResolveIn(vals, key, depth, i + 1)
\* the for loop of autoResolve over Object.keys(obj), from child i
autoResolveIn(vals, key, depth, i) ==
    IF i > Len(vals) THEN Null
    ELSE IF IsObjectLike(vals[i])
         THEN LET found == autoResolveAt(vals[i], key, depth + 1)
              IN  IF found # Null THEN found
                  ELSE autoResolveIn(vals, key, depth, i + 1)
         ELSE autoResolveIn(vals, key, depth, i + 1)
\* autoResolve in call frame number depth
autoResolveAt(obj, key, depth) ==
    IF depth > MaxCallDepth THEN Throw("RangeError")
    ELSE IF IsNullish(obj) THEN Null
    ELSE IF GetProp(obj, key) # Undef THEN GetProp(obj, key)
    ELSE autoResolveIn(Children(obj), key, depth, 1)

autoResolve(obj, key) == autoResolveAt(obj, key, 1)

(***************************************************************************)
(* Expression Evaluator: what Function("...return <expr>")() computes for  *)
(* the expressions the model draws.  The grammar modelled is               *)
(*   e ::= e || e | e && e | e === e | e !== e | e == e | e != e           *)
(*       | e > e | e < e | e >= e | e <= e | !e | primary                  *)
(*   primary ::= "text" | number | true | false | null | undefined         *)
(*             | word ((. | ?.) word)*                                     *)
(* with JavaScript's precedence, left associativity and short-circuit.     *)
(***************************************************************************)
Quotes == {"\"", "'"}
NumSyms == <<"0", "1", "2", "3", "4", "5">>
IsNumSym(c) == \E i \in DOMAIN NumSyms : NumSyms[i] = c
NumOf(c) == (CHOOSE i \in DOMAIN NumSyms : NumSyms[i] = c) - 1
Keywords == {"true", "false", "null", "undefined"}
Marks == {".", "?.", "||", "&&", "===", "!==", "==", "!=", ">", "<", ">=", "<=",
          "!", "+", "-", "*", "/", "?", ":", ",", "(", ")", "{", "}", "[", "]",
          "@", "...", "#", " ", "\"", "'", "|", "=", "\n"}
\* a word usable as an identifier
IsIdent(c) == c \notin Marks /\ c \notin Keywords /\ ~IsNumSym(c)

Lit(s) == [k |-> "lit", s |-> s]
Sym(c) == [k |-> "sym", c |-> c]
BadTok == [k |-> "bad"]

\* the index of the quote that closes the one opened before position i, or 0
RECURSIVE CloseQuote(_, _, _)
CloseQuote(s, q, i) ==
    IF i > Len(s) THEN 0
    ELSE IF s[i] = q THEN i
    ELSE CloseQuote(s, q, i + 1)

\* the tokens of an expression text: blanks dropped, a quoted text one token
RECURSIVE LexFrom(_, _)
LexFrom(s, i) ==
    IF i > Len(s) THEN <<>>
    ELSE IF s[i] = " " THEN LexFrom(s, i + 1)
    ELSE IF s[i] \in Quotes
         THEN LET j == CloseQuote(s, s[i], i + 1)
              IN  IF j = 0 THEN <<BadTok>>
                  ELSE <<Lit(SubSeq(s, i + 1, j - 1))>> \o LexFrom(s, j + 1)
    ELSE <<Sym(s[i])>> \o LexFrom(s, i + 1)
Lex(s) == LexFrom(s, 1)

\* binary operators by precedence level, loosest first
LevelOps == << {"||"}, {"&&"}, {"===", "!==", "==", "!="}, {">", "<", ">=", "<="} >>
IsOpAt(tok, L) == tok.k = "sym" /\ tok.c \in LevelOps[L]
\* the position of the last operator of level L in toks, or 0
LastOp(toks, L) ==
    IF \E i \in DOMAIN toks : IsOpAt(toks[i], L)
    THEN CHOOSE i \in DOMAIN toks :
            IsOpAt(toks[i], L) /\ \A j \in DOMAIN toks : IsOpAt(toks[j], L) => j <= i
    ELSE 0

\* word ((. | ?.) word)* from position i on, i at a word
RECURSIVE ChainOk(_, _)
ChainOk(toks, i) ==
    /\ i <= Len(toks)
    /\ toks[i].k = "sym" /\ IsIdent(toks[i].c)
    /\ \/ i = Len(toks)
       \/ /\ i + 1 < Len(toks)
          /\ toks[i + 1].k = "sym" /\ toks[i + 1].c \in {".", "?."}
          /\ ChainOk(toks, i + 2)

\* does toks parse as an expression of level L or tighter
RECURSIVE WellFormed(_, _)
WellFormed(toks, L) ==
    IF toks = <<>> THEN FALSE
    ELSE IF L <= Len(LevelOps)
    THEN LET p == LastOp(toks, L)
         IN  IF p = 0 THEN WellFormed(toks, L + 1)
             ELSE /\ WellFormed(SubSeq(toks, 1, p - 1), L)
                  /\ WellFormed(SubSeq(toks, p + 1, Len(toks)), L + 1)
    ELSE IF toks[1].k = "sym" /\ toks[1].c = "!" THEN WellFormed(Tail(toks), L)
    ELSE IF toks[1].k = "lit" THEN Len(toks) = 1
    ELSE IF toks[1].k = "bad" THEN FALSE
    ELSE IF IsNumSym(toks[1].c) \/ toks[1].c \in Keywords THEN Len(toks) = 1
    ELSE ChainOk(toks, 1)

\* an identifier in the scope chain (innermost scope first); past the last
\* scope lies the global object, which defines none of the model's words
RECURSIVE Lookup(_, _, _)
Lookup(id, scopes, i) ==
    IF i > Len(scopes) THEN Throw("ReferenceError")
    ELSE IF HasKey(scopes[i], W(id)) THEN GetProp(scopes[i], W(id))
    ELSE Lookup(id, scopes, i + 1)

\* the member accesses of a chain, from the operator at position i on
RECURSIVE Members(_, _, _)
Members(cur, toks, i) ==
    IF i > Len(toks) THEN cur
    ELSE IF IsNullish(cur)
         THEN IF toks[i].c = "?." THEN Undef ELSE Throw("TypeError")
    ELSE Members(GetProp(cur, W(toks[i + 1].c)), toks, i + 2)

\* ToNumber of the values a comparison meets; IsNaN tells when it is NaN
IsNaN(v) == v.t \notin {"num", "bool", "null"}
ToNumber(v) ==
    CASE v.t = "num" -> v.n
      [] v.t = "bool" -> IF v.b THEN 1 ELSE 0
      [] OTHER -> 0

StrictEquals(a, b) ==
    CASE a.t # b.t -> FALSE
      [] a.t \in {"obj", "arr", "fn"} -> FALSE
      [] OTHER -> a = b
LooseEquals(a, b) ==
    IF IsNullish(a) \/ IsNullish(b) THEN IsNullish(a) /\ IsNullish(b)
    ELSE StrictEquals(a, b)
Compare(op, a, b) ==
    LET x == ToNumber(a)
        y == ToNumber(b)
    IN  IF IsNaN(a) \/ IsNaN(b) THEN FALSE
        ELSE CASE op = ">" -> x > y
               [] op = "<" -> x < y
               [] op = ">=" -> x >= y
               [] op = "<=" -> x <= y

\* the value of a well-formed expression of level L, or the Throw it raises
RECURSIVE EvalAt(_, _, _)
EvalAt(toks, L, scopes) ==
    IF L <= Len(LevelOps)
    THEN LET p == LastOp(toks, L)
         IN  IF p = 0 THEN EvalAt(toks, L + 1, scopes)
             ELSE LET op == toks[p].c
                      a == EvalAt(SubSeq(toks, 1, p - 1), L, scopes)
                      b == EvalAt(SubSeq(toks, p + 1, Len(toks)), L + 1, scopes)
                  IN  IF IsThrow(a) THEN a
                      ELSE IF op = "||" THEN (IF Truthy(a) THEN a ELSE b)
                      ELSE IF op = "&&" THEN (IF Truthy(a) THEN b ELSE a)
                      ELSE IF IsThrow(b) THEN b
                      ELSE IF op = "===" THEN Bool(StrictEquals(a, b))
                      ELSE IF op = "!==" THEN Bool(~StrictEquals(a, b))
                      ELSE IF op = "==" THEN Bool(LooseEquals(a, b))
                      ELSE IF op = "!=" THEN Bool(~LooseEquals(a, b))
                      ELSE Bool(Compare(op, a, b))
    ELSE IF toks[1].k = "lit" THEN Str(toks[1].s)
    ELSE IF toks[1].c = "!"
         THEN LET a == EvalAt(Tail(toks), L, scopes)
              IN  IF IsThrow(a) THEN a ELSE Bool(~Truthy(a))
    ELSE IF IsNumSym(toks[1].c) THEN Num(NumOf(toks[1].c))
    ELSE IF toks[1].c = "true" THEN Bool(TRUE)
    ELSE IF toks[1].c = "false" THEN Bool(FALSE)
    ELSE IF toks[1].c = "null" THEN Null
    ELSE IF toks[1].c = "undefined" THEN Undef
    ELSE LET base == Lookup(toks[1].c, scopes, 1)
         IN  IF IsThrow(base) THEN base ELSE Members(base, toks, 2)

\* Function(params, "with(...){ return <expr> }")(args): SyntaxError when the
\* text does not parse, TypeError when a with() operand is null or undefined
EvaluateTokens(toks, withs, locals) ==
    IF ~WellFormed(toks, 1) THEN Throw("SyntaxError")
    ELSE IF \E i \in DOMAIN withs : IsNullish(withs[i]) THEN Throw("TypeError")
    ELSE EvalAt(toks, 1, withs \o <<locals>>)
Evaluate(expr, withs, locals) == EvaluateTokens(Lex(expr), withs, locals)

\* with(data){ with(root){ return <expr> } }: root is the innermost scope
\* try { ... } catch { return null }
Caught(r) == IF IsThrow(r) THEN Null ELSE r
evalNestedField(expr, d, root) ==
    Caught(Evaluate(expr, <<root, d>>, Obj(<<KV("data", d), KV("root", root)>>)))

(***************************************************************************)
(* Query Compiler.  A line is matched against the patterns of parseQuery   *)
(* symbol by symbol: \w+ is one word symbol, \s one blank.                 *)
(***************************************************************************)
NaN == [t |-> "nan"]
\* a reference to a tree under construction (root, or a block's nested tree)
QRef(i) == [t |-> "qref", id |-> i]

\* \w+
IsWord(c) == c \notin Marks
\* a symbol holding a dot, for includes(".")
HasDot(c) == c \in {".", "...", "?."}
\* [\w.@\[\]]+
InAliasClass(c) == IsWord(c) \/ c \in {".", "...", "@", "[", "]"}

At(L, i) == IF i \in DOMAIN L THEN L[i] ELSE "\n"
\* does pat occur in L at position i
MatchAt(L, i, pat) ==
    /\ i >= 1
    /\ i + Len(pat) - 1 <= Len(L)
    /\ SubSeq(L, i, i + Len(pat) - 1) = pat
\* the first position from i on that holds no blank
RECURSIVE SkipBlanks(_, _)
SkipBlanks(L, i) == IF At(L, i) = " " THEN SkipBlanks(L, i + 1) ELSE i
\* the last position up to i that holds no blank (0 when there is none)
RECURSIVE BackBlanks(_, _)
BackBlanks(L, i) == IF i >= 1 /\ L[i] = " " THEN BackBlanks(L, i - 1) ELSE i
\* the first position from i on whose symbol is in set (0 when there is none)
FirstIn(L, i, set) ==
    IF \E j \in i..Len(L) : L[j] \in set
    THEN CHOOSE j \in i..Len(L) : L[j] \in set /\ \A m \in i..(j - 1) : L[m] \notin set
    ELSE 0
Min(S) == CHOOSE x \in S : \A y \in S : x <= y
Max(S) == CHOOSE x \in S : \A y \in S : y <= x

\* @name(arg:\s*Q(.*)Q\) at position j: the positions of the opening quote
\* and of the last closing quote that a ")" follows; <<0, 0>> when no match
AnnotationAt(L, j, name, arg, quotes) ==
    IF ~MatchAt(L, j, <<"@", name, "(", arg, ":">>) THEN <<0, 0>>
    ELSE LET q == SkipBlanks(L, j + 5)
             ends == {e \in (q + 1)..Len(L) : L[e] \in quotes /\ At(L, e + 1) = ")"}
         IN  IF At(L, q) \in quotes /\ ends # {} THEN <<q, Max(ends)>> ELSE <<0, 0>>

\* /(\w+)\s+@name\(if:\s*"(.*)"\)/ : the leftmost position j of an @name
\* annotation that has a word and blanks before it, or 0
FieldAnnotation(L, name) ==
    LET ok == {j \in DOMAIN L :
                 /\ AnnotationAt(L, j, name, "if", {"\""})[1] # 0
                 /\ At(L, j - 1) = " "
                 /\ BackBlanks(L, j - 1) >= 1
                 /\ IsWord(L[BackBlanks(L, j - 1)])}
    IN  IF ok = {} THEN 0 ELSE Min(ok)

\* /@name\(arg:\s*Q(.*)Q\)/ : the leftmost position of the annotation, or 0
AnyAnnotation(L, name, arg, quotes) ==
    LET ok == {j \in DOMAIN L : AnnotationAt(L, j, name, arg, quotes)[1] # 0}
    IN  IF ok = {} THEN 0 ELSE Min(ok)

\* /^(\w+)\s*:\s*(\w+)\s+@transform\(fn:\s*"(.*)"\)/ : <<position of the
\* path word, position of the annotation>>, or <<0, 0>>
TransformLine(L) ==
    LET c == SkipBlanks(L, 2)
        w == SkipBlanks(L, c + 1)
        j == SkipBlanks(L, w + 1)
    IN  IF /\ L # <<>> /\ IsWord(L[1])
           /\ At(L, c) = ":"
           /\ w <= Len(L) /\ IsWord(At(L, w))
           /\ j > w + 1
           /\ AnnotationAt(L, j, "transform", "fn", {"\""})[1] # 0
        THEN <<w, j>> ELSE <<0, 0>>

\* /^(\w+)(\([^)]*\))?\s*\{\s*([^}]*)\s*\}$/ : <<position of the ")" that
\* ends the arguments (0 without arguments), position of the "{">>, or
\* <<0, 0>> when the line is no inline block
InlineBlock(L) ==
    LET close == IF At(L, 2) = "(" THEN FirstIn(L, 3, {")"}) ELSE 0
        open == SkipBlanks(L, IF close = 0 THEN 2 ELSE close + 1)
    IN  IF /\ L # <<>> /\ IsWord(L[1])
           /\ (At(L, 2) = "(" => close # 0)
           /\ At(L, open) = "{"
           /\ FirstIn(L, open + 1, {"}"}) = Len(L)
        THEN <<close, open>> ELSE <<0, 0>>

\* parseInt(v, 10) of an argument text
ParseInt(v) ==
    IF v = <<>> THEN NaN
    ELSE IF IsNumSym(v[1]) THEN Num(NumOf(v[1]))
    ELSE IF v[1] = "-" /\ Len(v) > 1 /\ IsNumSym(v[2]) THEN Num(0 - NumOf(v[2]))
    ELSE NaN

\* v.replace(/^["']|["']$/g, "")
StripQuotes(v) ==
    LET a == IF v # <<>> /\ Head(v) \in Quotes THEN Tail(v) ELSE v
    IN  IF a # <<>> /\ a[Len(a)] \in Quotes THEN SubSeq(a, 1, Len(a) - 1) ELSE a

\* const [k, v] = current.split(":").map(trim); the assignment to args[k]
\* (v is undefined when current holds no ":", and v.replace then raises)
StoreArg(args, current) ==
    LET parts == Split(current, ":")
        k == Trim(parts[1])
        hasV == Len(parts) >= 2
        v == IF hasV THEN Trim(parts[2]) ELSE <<>>
    IN  IF IsThrow(args) \/ k = <<>> THEN args
        ELSE IF k \in {W("limit"), W("skip")}
        THEN SetProp(args, k, IF hasV THEN ParseInt(v) ELSE NaN)
        ELSE IF ~hasV THEN Throw("TypeError")
        ELSE SetProp(args, k, Str(StripQuotes(v)))

\* the character loop of parseArgs from position i
RECURSIVE ParseArgsFrom(_, _, _, _, _, _)
ParseArgsFrom(s, i, args, current, inQuotes, quoteChar) ==
    IF i > Len(s) THEN (IF current # <<>> THEN StoreArg(args, current) ELSE args)
    ELSE LET c == s[i]
         IN  IF c \in Quotes /\ ~inQuotes
             THEN ParseArgsFrom(s, i + 1, args, Append(current, c), TRUE, c)
             ELSE IF c = quoteChar /\ inQuotes
             THEN ParseArgsFrom(s, i + 1, args, Append(current, c), FALSE, quoteChar)
             ELSE IF c = "," /\ ~inQuotes
             THEN ParseArgsFrom(s, i + 1, StoreArg(args, current), <<>>, inQuotes, quoteChar)
             ELSE ParseArgsFrom(s, i + 1, args, Append(current, c), inQuotes, quoteChar)

parseArgs(argsStr) == ParseArgsFrom(argsStr, 1, Obj(<<>>), <<>>, FALSE, "")

\* Object.assign(directive, args)
RECURSIVE AssignAll(_, _, _)
AssignAll(target, source, i) ==
    IF i > Len(source.kv) THEN target
    ELSE AssignAll(SetProp(target, source.kv[i][1], source.kv[i][2]), source, i + 1)

\* the entry an alias produces: a closure when the expression holds "." or
\* "[", a Directive with the expression as path otherwise
AliasField(expr, cap, usesArg) ==
    IF \E i \in DOMAIN expr : HasDot(expr[i]) \/ expr[i] = "["
    THEN Fn(expr, cap, usesArg)
    ELSE Obj(<<KV("path", Str(expr))>>)

\* nested.__fragments = nested.__fragments || []; nested.__fragments.push(name)
PushFragment(tree, name) ==
    LET old == GetProp(tree, W("__fragments"))
    IN  SetProp(tree, W("__fragments"),
                Arr((IF Truthy(old) THEN old.items ELSE <<>>) \o <<Str(name)>>))

\* innerFields.match(fieldRegex).forEach(...) from position i: the nested tree
\* of an inline block
RECURSIVE InlineFields(_, _, _)
InlineFields(s, i, nested) ==
    IF i > Len(s) THEN nested
    ELSE IF s[i] = "..." /\ IsWord(At(s, i + 1))
    THEN InlineFields(s, i + 2, PushFragment(nested, W(s[i + 1])))
    ELSE IF IsWord(s[i])
    THEN LET c == SkipBlanks(s, i + 1)
             k == SkipBlanks(s, c + 1)
             beyond == {m \in k..Len(s) : ~InAliasClass(s[m])}
             m == IF beyond = {} THEN Len(s) ELSE Min(beyond) - 1
         IN  IF At(s, c) = ":" /\ k <= Len(s) /\ InAliasClass(At(s, k))
             THEN InlineFields(s, m + 1,
                      SetProp(nested, W(s[i]), AliasField(SubSeq(s, k, m), Undef, TRUE)))
             ELSE InlineFields(s, i + 1, SetProp(nested, W(s[i]), Str(W(s[i]))))
    ELSE InlineFields(s, i + 1, nested)

\* queryStr.split("\n").map(trim).filter((l) => l && !l.startsWith("#"))
Lines(text) ==
    LET raw == Split(text, "\n")
        trimmed == [i \in DOMAIN raw |-> Trim(raw[i])]
    IN  SelectSeq(trimmed, LAMBDA l : l # <<>> /\ l[1] # "#")

\* line.replace(/,$/, "").trim()
Normalize(line) ==
    Trim(IF line # <<>> /\ line[Len(line)] = "," THEN SubSeq(line, 1, Len(line) - 1)
         ELSE line)

\* s without its symbols from position a to position b
Cut(s, a, b) == SubSeq(s, 1, a - 1) \o SubSeq(s, b + 1, Len(s))
\* the text between the quotes of the annotation found at position j
Quoted(L, j, name, arg, quotes) ==
    LET qe == AnnotationAt(L, j, name, arg, quotes)
    IN  SubSeq(L, qe[1] + 1, qe[2] - 1)

\* the first pattern of parseQuery's loop body that the line matches
LineKind(line) ==
    CASE FieldAnnotation(line, "skip") # 0 -> "skip"
      [] FieldAnnotation(line, "include") # 0 -> "include"
      [] AnyAnnotation(line, "default", "value", Quotes) # 0 -> "default"
      [] TransformLine(line)[1] # 0 -> "transform"
      [] InlineBlock(line)[2] # 0 -> "inline"
      [] At(line, 1) = "..." -> "spread"
      [] line # <<>> /\ line[Len(line)] = "{" -> "open"
      [] line = <<"}">> -> "close"
      [] /\ line # <<>> /\ IsWord(line[1])
         /\ At(line, SkipBlanks(line, 2)) = ":"
         /\ SkipBlanks(line, SkipBlanks(line, 2) + 1) <= Len(line) -> "alias"
      [] OTHER -> "field"

\* the parser's state: the trees under construction and the block stack
ParserInit == [t |-> "parser", objs |-> <<Obj(<<>>)>>, stack |-> <<1>>]
Current(st) == st.stack[Len(st.stack)]
\* current[key] = value
SetCurrent(st, key, value) ==
    [st EXCEPT !.objs[Current(st)] = SetProp(@, key, value)]

\* the Directive of an inline block: { nested } with the arguments assigned
InlineParts(nested, args) ==
    IF IsThrow(args) THEN args
    ELSE AssignAll(Obj(<<KV("nested", nested)>>), args, 1)
InlineNested(inner) ==
    IF Trim(inner) # <<>> THEN InlineFields(inner, 1, Obj(<<>>)) ELSE Obj(<<>>)
InlineAt(line, m) ==
    InlineParts(InlineNested(SubSeq(line, m[2] + 1, Len(line) - 1)),
                IF m[1] # 0 THEN parseArgs(Trim(SubSeq(line, 3, m[1] - 1)))
                ELSE Obj(<<>>))
InlineDirective(line) == InlineAt(line, InlineBlock(line))

\* the header of a block opener without the annotation at position j
CutAnnotation(header, j, name) ==
    Trim(Cut(header, j, AnnotationAt(header, j, name, "if", {"\""})[2] + 1))

\* /^(\w+)\((.*)\)/ : the position of the last ")" of the header, or 0
ParenMatch(header) ==
    LET ends == {e \in 3..Len(header) : header[e] = ")"}
    IN  IF header # <<>> /\ IsWord(header[1]) /\ At(header, 2) = "(" /\ ends # {}
        THEN Max(ends) ELSE 0

\* the key and the Directive of a block opener, from its header without
\* annotations: name(args) gives the name and the arguments
OpenParts(key, d2, args) ==
    IF IsThrow(args) THEN <<key, args>> ELSE <<key, AssignAll(d2, args, 1)>>
OpenArgs(h2, e, d2) ==
    IF e = 0 THEN <<h2, d2>>
    ELSE OpenParts(W(h2[1]), d2, parseArgs(Trim(SubSeq(h2, 3, e - 1))))
OpenCall(h2, d2) == OpenArgs(h2, ParenMatch(h2), d2)
\* the @include(if: "...") of the header moved into the Directive
OpenInclude(h1, ji, d1) ==
    IF ji = 0 THEN OpenCall(h1, d1)
    ELSE OpenCall(CutAnnotation(h1, ji, "include"),
                  SetProp(d1, W("includeIf"), Str(Quoted(h1, ji, "include", "if", {"\""}))))
OpenIncluded(h1, d1) == OpenInclude(h1, AnyAnnotation(h1, "include", "if", {"\""}), d1)
\* the @skip(if: "...") of the header moved into the Directive
OpenSkip(h0, js, d0) ==
    IF js = 0 THEN OpenIncluded(h0, d0)
    ELSE OpenIncluded(CutAnnotation(h0, js, "skip"),
                      SetProp(d0, W("skipIf"), Str(Quoted(h0, js, "skip", "if", {"\""}))))
OpenHeader(h0, id) ==
    OpenSkip(h0, AnyAnnotation(h0, "skip", "if", {"\""}), Obj(<<KV("nested", QRef(id))>>))
\* the block opener "header {": <<key, directive>> with nested the tree id
OpenBlock(line, id) == OpenHeader(Trim(SubSeq(line, 1, Len(line) - 1)), id)

\* name @skip(if: "..."), the annotation at position j
SkipField(st, line, j) ==
    SetCurrent(st, W(line[BackBlanks(line, j - 1)]),
               Obj(<<KV("skipIf", Str(Quoted(line, j, "skip", "if", {"\""})))>>))
\* name @include(if: "..."), the annotation at position j
IncludeField(st, line, j) ==
    SetCurrent(st, W(line[BackBlanks(line, j - 1)]),
               Obj(<<KV("includeIf", Str(Quoted(line, j, "include", "if", {"\""})))>>))
\* a line with @default(value: "...") at position j: the key is the line
\* without the annotation
DefaultField(st, line, j) ==
    SetCurrent(st, Trim(Cut(line, j, AnnotationAt(line, j, "default", "value", Quotes)[2] + 1)),
               Obj(<<KV("default", Str(Quoted(line, j, "default", "value", Quotes)))>>))
\* alias: name @transform(fn: "..."), m the places of name and annotation
TransformField(st, line, m) ==
    SetCurrent(st, W(line[1]),
               Obj(<<KV("path", Str(W(line[m[1]]))),
                     KV("transform", Str(Quoted(line, m[2], "transform", "fn", {"\""})))>>))
\* name(args) { fields } on one line
InlineField(st, line, d) ==
    IF IsThrow(d) THEN d ELSE SetCurrent(st, W(line[1]), d)
\* ...Name
SpreadLine(st, line) ==
    [st EXCEPT !.objs[Current(st)] = PushFragment(@, Trim(Tail(line)))]
\* header {: the Directive stored under the key, its nested tree pushed
BlockOpen(st, kd) ==
    IF IsThrow(kd[2]) THEN kd[2]
    ELSE [t |-> "parser",
          objs |-> Append(SetCurrent(st, kd[1], kd[2]).objs, Obj(<<>>)),
          stack |-> Append(st.stack, Len(st.objs) + 1)]
\* a closer that pops whatever the depth of the stack
BlockCloseUnguarded(st) == [st EXCEPT !.stack = SubSeq(@, 1, Len(@) - 1)]
\* }
BlockClose(st) ==
    IF Len(st.stack) > 1
    THEN [st EXCEPT !.stack = SubSeq(@, 1, Len(@) - 1)]
    ELSE st
\* alias: expression, the expression from position k on
AliasLine(st, line, k, rootData) ==
    SetCurrent(st, W(line[1]), AliasField(SubSeq(line, k, Len(line)), rootData, FALSE))

\* the body of parseQuery's loop for a line of a kind
ParseKind(st, line, kind, rootData) ==
    CASE kind = "skip" -> SkipField(st, line, FieldAnnotation(line, "skip"))
      [] kind = "include" -> IncludeField(st, line, FieldAnnotation(line, "include"))
      [] kind = "default" ->
            DefaultField(st, line, AnyAnnotation(line, "default", "value", Quotes))
      [] kind = "transform" -> TransformField(st, line, TransformLine(line))
      [] kind = "inline" -> InlineField(st, line, InlineDirective(line))
      [] kind = "spread" -> SpreadLine(st, line)
      [] kind = "open" -> BlockOpen(st, OpenBlock(line, Len(st.objs) + 1))
      [] kind = "close" -> BlockClose(st)
      [] kind = "alias" ->
            AliasLine(st, line, SkipBlanks(line, SkipBlanks(line, 2) + 1), rootData)
      [] OTHER -> SetCurrent(st, line, Str(line))

ParseNormalized(st, line, rootData) == ParseKind(st, line, LineKind(line), rootData)
\* one iteration of parseQuery's loop: the parser's state after the line
ParseLine(st, line0, rootData) == ParseNormalized(st, Normalize(line0), rootData)

\* the tree the parser built, with each block's nested tree in its place
RECURSIVE Materialize(_, _)
Materialize(objs, v) ==
    IF v.t = "qref" THEN Materialize(objs, objs[v.id])
    ELSE IF v.t = "obj"
    THEN Obj([i \in DOMAIN v.kv |-> <<v.kv[i][1], Materialize(objs, v.kv[i][2])>>])
    ELSE v

RECURSIVE ParseFrom(_, _, _, _)
ParseFrom(st, ls, i, rootData) ==
    IF IsThrow(st) \/ i > Len(ls) THEN st
    ELSE ParseFrom(ParseLine(st, ls[i], rootData), ls, i + 1, rootData)

\* parseQuery(queryStr, rootData): the root tree, or the exception raised
ParseResult(st) == IF IsThrow(st) THEN st ELSE Materialize(st.objs, QRef(1))
parseQuery(queryStr, rootData) ==
    ParseResult(ParseFrom(ParserInit, Lines(queryStr), 1, rootData))

(***************************************************************************)
(* Fragment merge.                                                         *)
(***************************************************************************)
\* target[key] = v in strict-mode code: TypeError on a primitive target
AssignProp(target, key, v) ==
    IF Deref(target).t \in {"obj", "arr"} THEN SetProp(Deref(target), key, v)
    ELSE Throw("TypeError")

RECURSIVE mergeDeepAt(_, _, _)
RECURSIVE mergeDeepFrom(_, _, _, _)
\* the for-in loop of mergeDeep, from key number i of source
mergeDeepFrom(target, source, depth, i) ==
    IF IsThrow(target) \/ i > Len(Keys(source)) THEN target
    ELSE LET key == Keys(source)[i]
             sv == GetProp(source, key)
         IN  IF key = W("__fragments") THEN mergeDeepFrom(target, source, depth, i + 1)
             ELSE IF Truthy(sv) /\ IsObjectLike(sv) /\ ~IsArray(sv)
             THEN LET t1 == IF ~Truthy(GetProp(target, key))
                            THEN AssignProp(target, key, Obj(<<>>))
                            ELSE target
                      sub == IF IsThrow(t1) THEN t1
                             ELSE mergeDeepAt(GetProp(t1, key), sv, depth + 1)
                      t2 == IF IsThrow(sub) THEN sub ELSE SetProp(t1, key, sub)
                  IN  mergeDeepFrom(t2, source, depth, i + 1)
             ELSE mergeDeepFrom(AssignProp(target, key, sv), source, depth, i + 1)
\* mergeDeep in call frame number depth: the target after the merge
mergeDeepAt(target, source, depth) ==
    IF depth > MaxCallDepth THEN Throw("RangeError")
    ELSE mergeDeepFrom(Own(target), source, depth, 1)

mergeDeep(target, source) == mergeDeepAt(target, source, 1)

\* the objects of the caller that a value holds as written targets
RECURSIVE HeldIn(_)
HeldIn(v) ==
    IF v.t \notin {"obj", "arr"} THEN {}
    ELSE (IF IsHeld(v) THEN {v} ELSE {})
         \cup UNION {HeldIn(v.kv[i][2]) : i \in DOMAIN v.kv}
         \cup (IF v.t = "arr" THEN UNION {HeldIn(v.items[i]) : i \in DOMAIN v.items} ELSE {})
\* the value with every written target of the caller as the reference it is
RECURSIVE Sealed(_)
SealedInside(v) ==
    IF v.t = "arr"
    THEN [t |-> "arr", items |-> [i \in DOMAIN v.items |-> Sealed(v.items[i])],
          kv |-> [i \in DOMAIN v.kv |-> <<v.kv[i][1], Sealed(v.kv[i][2])>>]]
    ELSE Obj([i \in DOMAIN v.kv |-> <<v.kv[i][1], Sealed(v.kv[i][2])>>])
Sealed(v) ==
    IF v.t \notin {"obj", "arr"} THEN v
    ELSE IF IsHeld(v) THEN Ref(v.id)
    ELSE SealedInside(v)
\* the caller's objects after the property writes a step made (a step that
\* raises is taken without the writes it made before it raised)
Commit(h, v) ==
    [i \in DOMAIN h |->
        IF \E c \in HeldIn(v) : c.id = i
        THEN SealedInside(CHOOSE c \in HeldIn(v) : c.id = i)
        ELSE h[i]]

(***************************************************************************)
(* Shaping Engine.                                                         *)
(***************************************************************************)
DirectiveKeys == {W("path"), W("skipIf"), W("includeIf"), W("nested"), W("filter"),
                  W("default"), W("transform"), W("limit"), W("skip")}

isDirectiveObject(field) ==
    /\ field.t \in {"obj", "arr"}
    /\ \E k \in DirectiveKeys : HasKey(field, k)

\* the closure parseQuery stored, called as field(safeTarget, root)
CallFn(f, d, root) ==
    IF f.usesArg THEN evalNestedField(f.expr, d, root)
    ELSE evalNestedField(f.expr, d, Coalesce(f.cap, d))

\* a relative index of Array.prototype.slice, for an array of length n
SliceIndex(v, n) ==
    LET k == IF v.t = "num" THEN v.n ELSE 0
    IN  IF k < 0 THEN (IF n + k < 0 THEN 0 ELSE n + k)
        ELSE IF k > n THEN n ELSE k
\* items.slice(from) and items.slice(0, to)
SliceFrom(items, from) == SubSeq(items, SliceIndex(from, Len(items)) + 1, Len(items))
SliceTo(items, to) == SubSeq(items, 1, SliceIndex(to, Len(items)))

\* arrData.filter((item) => !!evalNestedField(filter, item, root))
RECURSIVE FilterItems(_, _, _, _)
FilterItems(items, filter, root, i) ==
    IF i > Len(items) THEN <<>>
    ELSE (IF Truthy(evalNestedField(filter, items[i], root)) THEN <<items[i]>> ELSE <<>>)
         \o FilterItems(items, filter, root, i + 1)

\* getByPath(safeTarget, part) ?? getByPath(root, part)
\*     ?? autoResolve(root, part) ?? evalNestedField(part, safeTarget, root)
PathPart(part, safeTarget, root) ==
    Coalesce(Coalesce(Coalesce(getByPath(safeTarget, part), getByPath(root, part)),
                      autoResolve(root, part)),
             evalNestedField(part, safeTarget, root))

RECURSIVE PathChain(_, _, _, _)
\* a chain that goes on to the next part unless the value is truthy
PathNextTruthy(parts, safeTarget, root, i, value) ==
    IF Truthy(value) \/ i = Len(parts) THEN value
    ELSE PathChain(parts, safeTarget, root, i + 1)
\* if (value != null) break: the chain stops at part i or goes on
PathNext(parts, safeTarget, root, i, value) ==
    IF ~IsNullish(value) \/ i = Len(parts) THEN value
    ELSE PathChain(parts, safeTarget, root, i + 1)
\* the for loop over field.path.split("||"): the value from part i on
PathChain(parts, safeTarget, root, i) ==
    PathNext(parts, safeTarget, root, i, PathPart(parts[i], safeTarget, root))

\* try { value = Function(...)(value, safeTarget) } catch { }
TransformResult(r, value) == IF IsThrow(r) THEN value ELSE r
\* Function("value", "data", "with(data){ return <transform> }")(value, safeTarget)
ApplyTransform(transform, value, safeTarget) ==
    TransformResult(Evaluate(transform, <<safeTarget>>,
                             Obj(<<KV("value", value), KV("data", safeTarget)>>)),
                    value)

\* field.path.split("||").map(trim)
TrimAll(parts) == [i \in DOMAIN parts |-> Trim(parts[i])]
\* the path chain, or safeTarget[key] ?? autoResolve(root, key) without a path
ResolvePath(key, path, safeTarget, root) ==
    IF Truthy(path)
    THEN IF path.t # "str" THEN Throw("TypeError")
         ELSE PathChain(TrimAll(Split(path.s, "||")), safeTarget, root, 1)
    ELSE Coalesce(GetProp(safeTarget, key), autoResolve(root, key))
\* if (value == null && field.default !== undefined) value = field.default
ApplyDefault(field, v0) ==
    IF IsNullish(v0) /\ GetProp(field, W("default")) # Undef
    THEN GetProp(field, W("default"))
    ELSE v0
\* if (field.transform && value != null) value = the transform's result
TransformValue(field, safeTarget, v1) ==
    IF IsThrow(v1) THEN v1
    ELSE IF Truthy(GetProp(field, W("transform"))) /\ ~IsNullish(v1)
    THEN ApplyTransform(GetProp(field, W("transform")).s, v1, safeTarget)
    ELSE v1
\* the value a Directive resolves before the array / object / scalar step
DirectiveValue(key, field, safeTarget, root) ==
    TransformValue(field, safeTarget,
        ApplyDefault(field, ResolvePath(key, GetProp(field, W("path")), safeTarget, root)))

\* does the array step build a new array (filter or slice ran)
IsPaged(field) ==
    \/ Truthy(GetProp(field, W("filter")))
    \/ GetProp(field, W("skip")) # Undef
    \/ GetProp(field, W("limit")) # Undef

\* if (field.filter) arrData = arrData.filter(...)
Filtered(field, items, root) ==
    IF Truthy(GetProp(field, W("filter")))
    THEN FilterItems(items, GetProp(field, W("filter")).s, root, 1)
    ELSE items
\* if (field.skip !== undefined) arrData = arrData.slice(field.skip)
Skipped(field, items) ==
    IF GetProp(field, W("skip")) # Undef THEN SliceFrom(items, GetProp(field, W("skip")))
    ELSE items
\* if (field.limit !== undefined) arrData = arrData.slice(0, field.limit)
Limited(field, items) ==
    IF GetProp(field, W("limit")) # Undef THEN SliceTo(items, GetProp(field, W("limit")))
    ELSE items

\* a pipeline that takes the limit before it drops the skipped items
ArrayPipelineLimitFirst(field, items, root) ==
    Skipped(field, Limited(field, Filtered(field, items, root)))

\* filter, then skip, then limit
ArrayPipeline(field, items, root) ==
    Limited(field, Skipped(field, Filtered(field, items, root)))

\* a skip that gives way to an includeIf that holds
IsSkippedUnlessIncluded(field, safeTarget, root) ==
    LET skipIf == GetProp(field, W("skipIf"))
        includeIf == GetProp(field, W("includeIf"))
    IN  /\ Truthy(skipIf) /\ Truthy(evalNestedField(skipIf.s, safeTarget, root))
        /\ ~(Truthy(includeIf) /\ Truthy(evalNestedField(includeIf.s, safeTarget, root)))

\* if (field.skipIf) { shouldSkip = !!evalNestedField(field.skipIf, ...) }
IsSkipped(field, safeTarget, root) ==
    LET skipIf == GetProp(field, W("skipIf"))
    IN  Truthy(skipIf) /\ Truthy(evalNestedField(skipIf.s, safeTarget, root))

\* if (field.includeIf) { shouldInclude = !!evalNestedField(field.includeIf, ...) }
IsExcluded(field, safeTarget, root) ==
    LET includeIf == GetProp(field, W("includeIf"))
    IN  Truthy(includeIf) /\ ~Truthy(evalNestedField(includeIf.s, safeTarget, root))

RECURSIVE shapeAt(_, _, _, _, _)
RECURSIVE ShapeField(_, _, _, _, _)
RECURSIVE ShapeItems(_, _, _, _, _, _)
RECURSIVE ShapeFragments(_, _, _, _, _, _, _)
RECURSIVE ShapeKeys(_, _, _, _, _, _)

ConsItem(head, rest) ==
    IF IsThrow(head) THEN head
    ELSE IF IsThrow(rest) THEN rest
    ELSE Arr(<<head>> \o rest.items)
\* arrData.map((item) => shape(item, field.nested, fragments, root, key))
ShapeItems(items, nested, frs, root, key, i) ==
    IF i > Len(items) THEN Arr(<<>>)
    ELSE ConsItem(shapeAt(items[i], nested, frs, root, key),
                  ShapeItems(items, nested, frs, root, key, i + 1))

\* result[key] = field.nested ? arrData.map(...) : arrData
EmitArray(key, field, nested, value, arrData, frs, root) ==
    IF Truthy(nested) THEN ShapeItems(arrData, nested, frs, root, key, 1)
    ELSE IF IsPaged(field) THEN Arr(arrData)
    ELSE value
\* the array, object and scalar steps of a Directive
EmitValue(key, field, nested, value, frs, root) ==
    IF IsThrow(value) THEN value
    ELSE IF IsArray(value)
    THEN EmitArray(key, field, nested, value,
                   ArrayPipeline(field, Deref(value).items, root), frs, root)
    ELSE IF IsObjectLike(value)
    THEN IF Truthy(nested) THEN shapeAt(value, nested, frs, root, key)
         ELSE value
    ELSE Coalesce(value, Null)
\* the isDirectiveObject branch of the loop
ShapeDirective(safeTarget, key, field, frs, root) ==
    IF IsSkipped(field, safeTarget, root) THEN Null
    ELSE IF IsExcluded(field, safeTarget, root) THEN Null
    ELSE EmitValue(key, field, GetProp(field, W("nested")),
                   DirectiveValue(key, field, safeTarget, root), frs, root)
\* evalNestedField(field, safeTarget, root) ?? getByPath(safeTarget, field)
\*     ?? autoResolve(root, field) ?? null
ShapeString(expr, safeTarget, root) ==
    Coalesce(Coalesce(Coalesce(evalNestedField(expr, safeTarget, root),
                               getByPath(safeTarget, expr)),
                      autoResolve(root, expr)),
             Null)
\* the body of the for-in loop for one field
ShapeTarget(safeTarget, key, field, frs, root) ==
    IF field.t = "fn" THEN CallFn(field, safeTarget, root)
    ELSE IF isDirectiveObject(field) THEN ShapeDirective(safeTarget, key, field, frs, root)
    ELSE IF field.t \in {"obj", "arr"}
    THEN shapeAt(Coalesce(GetProp(safeTarget, key), Obj(<<>>)), field, frs, root, key)
    ELSE IF field.t = "str" THEN ShapeString(field.s, safeTarget, root)
    ELSE Coalesce(GetProp(safeTarget, key), Null)
\* the value one iteration of shape's for-in loop stores under key
ShapeField(d, key, field, frs, root) ==
    ShapeTarget(Coalesce(d, Obj(<<>>)), key, field, frs, root)

\* mergeDeep(result, fragResult)
MergeResult(result1, fragResult) ==
    IF IsThrow(fragResult) THEN fragResult ELSE mergeDeep(result1, fragResult)
\* const fragQuery = fragments[fragName]; if (!fragQuery) return
MergeNamed(d, fragQuery, frs, root, ctx, result1) ==
    IF ~Truthy(fragQuery) THEN result1
    ELSE MergeResult(result1, shapeAt(d, fragQuery, frs, root, ctx))
FragmentQuery(frs, fragName) ==
    IF fragName.t = "str" THEN GetProp(frs, fragName.s) ELSE Undef
\* one iteration of queryObj.__fragments.forEach: result after fragment i
MergeFragment(d, queryObj1, frs, root, ctx, i, result1) ==
    MergeNamed(d, FragmentQuery(frs, GetProp(queryObj1, W("__fragments")).items[i]),
               frs, root, ctx, result1)

\* does shape run its fragment loop
HasFragments(queryObj1, frs) ==
    Truthy(GetProp(queryObj1, W("__fragments"))) /\ Truthy(frs)
FragmentCount(queryObj1, frs) ==
    IF HasFragments(queryObj1, frs) /\ IsArray(GetProp(queryObj1, W("__fragments")))
    THEN Len(GetProp(queryObj1, W("__fragments")).items)
    ELSE 0

ShapeFragments(d, queryObj1, frs, root, ctx, i, result1) ==
    IF IsThrow(result1) \/ i > FragmentCount(queryObj1, frs) THEN result1
    ELSE ShapeFragments(d, queryObj1, frs, root, ctx, i + 1,
                        MergeFragment(d, queryObj1, frs, root, ctx, i, result1))

\* a store that leaves a key a fragment produced as it is
StoreValueKeepFragment(result1, key, value) ==
    IF IsThrow(value) THEN value
    ELSE IF HasKey(result1, key) THEN result1
    ELSE SetProp(result1, key, value)
\* result[key] = value
StoreValue(result1, key, value) ==
    IF IsThrow(value) THEN value ELSE SetProp(result1, key, value)
\* if (key === "__fragments") continue
StoreAt(d, key, queryObj1, frs, root, result1) ==
    IF key = W("__fragments") THEN result1
    ELSE StoreValue(result1, key, ShapeField(d, key, GetProp(queryObj1, key), frs, root))
\* one iteration of the for-in loop: result after key number i
StoreKey(d, queryObj1, frs, root, i, result1) ==
    StoreAt(d, Keys(queryObj1)[i], queryObj1, frs, root, result1)

ShapeKeys(d, queryObj1, frs, root, i, result1) ==
    IF IsThrow(result1) \/ i > Len(Keys(queryObj1)) THEN result1
    ELSE ShapeKeys(d, queryObj1, frs, root, i + 1,
                   StoreKey(d, queryObj1, frs, root, i, result1))

\* the fragment loop and the for-in loop over the tree
ShapeTree(d, queryObj1, frs, root, ctx) ==
    IF IsThrow(queryObj1) THEN queryObj1
    ELSE ShapeKeys(d, queryObj1, frs, root, 1,
                   ShapeFragments(d, queryObj1, frs, root, ctx, 1, Obj(<<>>)))
\* const queryObj = typeof query === "string" ? parseQuery(query, root) : query
ShapeRooted(d, q, frs, root, ctx) ==
    ShapeTree(d, IF q.t = "str" THEN parseQuery(q.s, root) ELSE q, frs, root, ctx)
\* a call that takes its own data for the root
shapeAtOwnData(d, q, frs, rootData, ctx) == ShapeRooted(d, q, frs, d, ctx)
\* shape(data, query, fragments, rootData, contextKey)
shapeAt(d, q, frs, rootData, ctx) == ShapeRooted(d, q, frs, Coalesce(rootData, d), ctx)

(***************************************************************************)
(* The inputs of a call: data, queries and fragment registries.            *)
(***************************************************************************)
S1(w) == Str(W(w))
Item(n) == Obj(<<KV("v", Num(n))>>)
\* the objects of the data held by reference: { name: "root", self: <itself> }
\* and the array [{ v: 1 }, { v: 2 }]
HeapInit == << Obj(<<KV("name", S1("root")), KV("self", Ref(1))>>),
               Arr(<<Item(1), Item(2)>>) >>
PostsData == Obj(<<KV("posts", Arr(<<Item(1), Item(2), Item(3), Item(4), Item(5)>>))>>)

\* an object from the entries of kv whose value is present
Some(kv) == Obj(SelectSeq(kv, LAMBDA e : e[2] # Undef))

FilterTexts == {<<"v", ">", "1">>, <<"v", "<", "4">>, <<"unknownVar", ">", "1">>}
PageArgs == {Undef} \cup {Num(n) : n \in 0..MaxPage}
ItemTree == Obj(<<KV("v", S1("v"))>>)

\* array blocks: posts(filter, skip, limit) with and without a nested tree
ArrayInputs ==
    { [data |-> PostsData,
       query |-> Obj(<<KV("posts", Some(<<KV("nested", n), KV("filter", f),
                                          KV("skip", sk), KV("limit", lim)>>))>>),
       fragments |-> Undef] :
      n \in {Undef, ItemTree},
      f \in {Undef} \cup {Str(x) : x \in FilterTexts},
      sk \in PageArgs, lim \in PageArgs } \ {[data |-> PostsData,
       query |-> Obj(<<KV("posts", Obj(<<>>))>>), fragments |-> Undef]}

\* a query text from its lines
RECURSIVE Text(_)
Text(ls) ==
    IF ls = <<>> THEN <<>>
    ELSE IF Len(ls) = 1 THEN ls[1]
    ELSE ls[1] \o <<"\n">> \o Text(Tail(ls))
In(d, q, frs) == [data |-> d, query |-> q, fragments |-> frs]

\* nested blocks over data whose top level may hold the nested field's name
UserData(topName, userName) ==
    Some(<<KV("name", topName),
           KV("user", Some(<<KV("name", userName),
                             KV("details", Obj(<<KV("name", S1("Johnny"))>>))>>))>>)
UserQueries ==
    { Str(Text(<< <<"user", " ", "{">>, <<"name">>,
                  <<"details", " ", "{", " ", "name", " ", "}">>, <<"}">> >>)),
      Str(<<"user", " ", "{", " ", "name", " ", "}">>),
      Obj(<<KV("user", Obj(<<KV("nested", Obj(<<KV("name", S1("name"))>>))>>))>>) }
NestedInputs ==
    { In(UserData(t, u), q, Undef) :
        t \in {Undef, Null, S1("Top")}, u \in {Undef, Null, S1("John")},
        q \in UserQueries }

\* data that holds a reference to itself, and the same shape without a cycle
CyclicData == Ref(1)
AcyclicTwin == Obj(<<KV("name", S1("root")),
                     KV("self", Obj(<<KV("name", S1("inner"))>>))>>)
SelfFragments == Obj(<<KV("own", Obj(<<KV("self", S1("self"))>>))>>)
CyclicQueries ==
    { In(d, q, Undef) :
        d \in {CyclicData, AcyclicTwin},
        q \in { Str(Text(<< <<"name">>, <<"self", " ", "{", " ", "name", " ", "}">> >>)),
                Str(Text(<< <<"name">>, <<"missing">> >>)),
                Str(<<"self", " ", "{", " ", "missing", " ", "}">>),
                Obj(<<KV("self", Obj(<<KV("nested",
                        Obj(<<KV("self", Obj(<<KV("nested",
                             Obj(<<KV("name", S1("name"))>>))>>))>>))>>))>>) } }
    \cup
    { In(d, Str(Text(<< <<"name">>, <<"...", "own">> >>)), SelfFragments) :
        d \in {CyclicData, AcyclicTwin} }

\* queries with one key whose expression fails, between two other keys
FailData ==
    Obj(<<KV("flag", Bool(TRUE)), KV("name", S1("John")),
          KV("user", Obj(<<KV("name", S1("U"))>>)),
          KV("posts", Arr(<<Item(1), Item(2)>>))>>)
FailingFields ==
    { Fn(<<"unknownVar", ".", "x">>, Undef, TRUE),
      Fn(<<"name", ".", "x", ".", "y">>, Undef, TRUE),
      Obj(<<KV("path", S1("name")), KV("skipIf", S1("unknownVar"))>>),
      Obj(<<KV("path", S1("name")), KV("includeIf", S1("unknownVar"))>>),
      Obj(<<KV("path", S1("posts")), KV("filter", Str(<<"unknownVar", ">", "1">>))>>),
      Obj(<<KV("path", S1("name")), KV("transform", S1("unknownVar"))>>),
      Obj(<<KV("path", S1("name")), KV("transform", Str(<<"value", ">">>))>>) }
FailureInputs ==
    { In(FailData,
         Obj(<<KV("first", S1("name")), KV("bad", f), KV("last", Obj(<<KV("path", S1("user"))>>))>>),
         Undef) : f \in FailingFields }

\* two fragments of one block that produce the same key, one a text and one
\* an object
InfoFragments ==
    Obj(<<KV("a", Obj(<<KV("info", S1("name"))>>)),
          KV("b", Obj(<<KV("info", Obj(<<KV("path", S1("user"))>>))>>)),
          KV("c", Obj(<<KV("extra", S1("flag"))>>))>>)
FragmentInputs ==
    { In(FailData, Str(Text(<< <<"...", x>>, <<"...", y>>, <<"name">> >>)), InfoFragments) :
        x \in {"a", "b", "c", "none"}, y \in {"a", "b", "c"} }
      \cup
    { In(FailData, Obj(<<KV("__fragments", Arr(<<S1(x), S1(y)>>))>>), InfoFragments) :
        x \in {"a", "b"}, y \in {"a", "b"} }

\* a computed field over a property that may be absent
ComputedInputs ==
    { In(Some(<<KV("a", a), KV("z", Num(1))>>),
         Str(Text(<< <<"alias", ":", " ", "a", ".", "b">>, <<"z">> >>)), Undef) :
        a \in {Undef, Null, Obj(<<>>), Obj(<<KV("b", Num(1))>>), Obj(<<KV("b", Null)>>)} }


\* one Directive with and without skipIf, includeIf, default, path,
\* transform and nested
GateConditions == {Undef, S1("flag"), Str(<<"!", "flag">>)}
GateSteps ==
    { <<Undef, Undef>>, <<S1("value"), Undef>>, <<Undef, Obj(<<KV("name", S1("name"))>>)>> }
GateInputs ==
    { In(FailData,
         Obj(<<KV("name", Some(<<KV("path", pth), KV("skipIf", sk), KV("includeIf", inc),
                                 KV("default", df), KV("transform", st[1]),
                                 KV("nested", st[2])>>))>>),
         Undef) :
        pth \in {Undef, S1("name"), S1("nope"), S1("user")}, sk \in GateConditions,
        inc \in GateConditions, df \in {Undef, S1("D")}, st \in GateSteps }

\* the alternatives of a path: a name of the data or a quoted text
Quote(w) == <<"\"">> \o w \o <<"\"">>
Alternatives == {W("a"), W("b"), Quote(W("lit")), Quote(<<"N", ".", "A">>)}
Chains ==
    { <<x, y>> : x, y \in Alternatives } \cup { <<W("a"), W("b"), Quote(W("lit"))>> }
\* p1 || p2 || ...
RECURSIVE Joined(_)
Joined(alts) ==
    IF Len(alts) = 1 THEN alts[1]
    ELSE alts[1] \o <<" ", "||", " ">> \o Joined(Tail(alts))
ChainData ==
    { Some(<<KV("a", a), KV("b", b)>>) :
        a \in {Undef, Null, Num(0), Bool(FALSE), Str(<<>>), S1("A")},
        b \in {Undef, S1("B")} }
ChainInputs ==
    { In(d, Obj(<<KV("x", Obj(<<KV("path", Str(Joined(c)))>>))>>), Undef) :
        d \in ChainData, c \in Chains }

\* field lines  x: p1 || p2  whose alternatives are bare names, dotted
\* paths and quoted texts
Dotted == <<"u", ".", "a">>
FallbackChains ==
    { <<W("a"), Quote(W("lit"))>>, <<W("a"), Quote(<<"N", ".", "A">>)>>,
      <<W("a"), W("b")>>, <<Dotted, Quote(W("lit"))>>, <<Dotted, W("b")>> }
FallbackText(c) == <<"x", ":", " ">> \o Joined(c)
FallbackData ==
    { Some(<<KV("a", a), KV("b", S1("B")), KV("u", Some(<<KV("a", a)>>))>>) :
        a \in {Undef, Num(0), S1("A")} }
FallbackInputs ==
    { In(d, Str(FallbackText(c)), Undef) : d \in FallbackData, c \in FallbackChains }

\* a block that spreads a fragment and names one of the fragment's keys
OverrideData ==
    Obj(<<KV("name", S1("John")), KV("alt", S1("Alt")), KV("nothing", Null),
          KV("flag", Bool(TRUE))>>)
OverrideFragments ==
    Obj(<<KV("f", Obj(<<KV("label", S1("name")), KV("extra", S1("flag"))>>))>>)
OverrideInputs ==
    { In(OverrideData, Str(Text(ls)), OverrideFragments) :
        ls \in UNION { { << <<"...", "f">>, <<"label", ":", " ", src>> >>,
                         << <<"label", ":", " ", src>>, <<"...", "f">> >> } :
                       src \in {"alt", "nothing", "name"} } }
      \cup
    { In(OverrideData, q, OverrideFragments) :
        q \in { Obj(<<KV("__fragments", Arr(<<S1("f")>>)), KV("label", S1("nothing"))>>),
                Obj(<<KV("label", S1("alt")), KV("__fragments", Arr(<<S1("f")>>))>>) } }

\* field lines with an annotation, and a tree whose entries are neither
\* texts nor objects
Annotation(name, arg, text) ==
    <<" ", "@", name, "(", arg, ":", " ", "\"">> \o text \o <<"\"", ")">>
AnnotatedLines ==
    { <<"name">> \o Annotation("skip", "if", c) : c \in {W("flag"), <<"!", "flag">>} }
      \cup
    { <<"name">> \o Annotation("include", "if", c) : c \in {W("flag"), <<"!", "flag">>} }
      \cup
    { <<"nope">> \o Annotation("default", "value", W("D")),
      <<"x", ":", " ", "name">> \o Annotation("transform", "fn", W("value")) }
AnnotatedInputs ==
    { In(FailData, Str(Text(<<l, <<"flag">> >>)), Undef) : l \in AnnotatedLines }
      \cup
    { In(FailData, Obj(<<KV("name", Bool(TRUE)), KV("nope", Num(1))>>), Undef) }

\* spreads at the top level, in an object block, in the items of an array
\* block and inside a fragment, over data whose top level may hold a name of
\* its own
LevelData(top) ==
    Some(<<KV("name", top),
           KV("user", Obj(<<KV("name", S1("John")), KV("age", Num(3))>>)),
           KV("posts", Arr(<<Obj(<<KV("v", Num(1)), KV("name", S1("P1"))>>),
                             Obj(<<KV("v", Num(2)), KV("name", S1("P2"))>>)>>))>>)
LevelFragments ==
    Obj(<<KV("basic", Obj(<<KV("name", S1("name"))>>)),
          KV("more", Obj(<<KV("age", S1("age")),
                           KV("__fragments", Arr(<<S1("basic")>>))>>)),
          KV("item", Obj(<<KV("v", S1("v"))>>))>>)
LevelQueries ==
    { <<"...", "basic">>,
      <<"...", "more">>,
      Text(<< <<"...", "none">>, <<"...", "basic">> >>),
      <<"user", " ", "{", " ", "...", "basic", " ", "...", "more", " ", "}">>,
      <<"user", " ", "{", " ", "...", "none", " ", "}">>,
      Text(<< <<"user", " ", "{">>, <<"...", "more">>, <<"...", "none">>, <<"}">> >>),
      <<"posts", " ", "{", " ", "...", "item", " ", "...", "basic", " ", "}">>,
      Text(<< <<"posts", " ", "{">>, <<"...", "item">>, <<"}">>, <<"...", "more">> >>) }
LevelInputs ==
    { In(LevelData(top), Str(q), LevelFragments) :
        top \in {Undef, S1("Top")}, q \in LevelQueries }

\* fragments of one block that produce the same key from an array the caller
\* holds, from an object and from a text
SharedData ==
    Obj(<<KV("name", S1("John")), KV("user", Obj(<<KV("name", S1("U"))>>)),
          KV("posts", Ref(2))>>)
SharedFragments ==
    Obj(<<KV("list", Obj(<<KV("info", S1("posts"))>>)),
          KV("card", Obj(<<KV("info", Obj(<<KV("path", S1("user"))>>))>>)),
          KV("tag", Obj(<<KV("extra", S1("name"))>>))>>)
SharedInputs ==
    { In(SharedData, Str(Text(<< <<"...", x>>, <<"...", y>>, <<"posts">> >>)), SharedFragments) :
        x \in {"list", "card", "tag"}, y \in {"list", "card", "tag"} }
      \cup
    { In(SharedData, Obj(<<KV("__fragments", Arr(<<S1("list"), S1("card")>>))>>),
         SharedFragments) }

\* an array block whose items hold a nested block that may be null in an item
Dept(name, manager) == Obj(<<KV("name", S1(name)), KV("manager", manager)>>)
Managers == {Null, Obj(<<KV("name", S1("Alex"))>>), Obj(<<KV("name", S1("Maria"))>>)}
DeptQueries ==
    { Str(Text(<< <<"departments", " ", "{">>, <<"name">>,
                  <<"manager", " ", "{">>, <<"name">>, <<"}">>, <<"}">> >>)),
      Str(Text(<< <<"departments", " ", "{">>, <<"name">>,
                  <<"manager", " ", "{", " ", "name", " ", "}">>, <<"}">> >>)) }
DeptInputs ==
    { In(Obj(<<KV("departments", Arr(<<Dept("Engineering", m1), Dept("HR", m2)>>))>>),
         q, Undef) : m1 \in Managers, m2 \in Managers, q \in DeptQueries }

\* a block over a property that holds a scalar
ScalarInputs ==
    { In(Obj(<<KV("user", s), KV("z", Num(1))>>), Str(q), Undef) :
        s \in {S1("John"), Num(5), Num(0), Bool(TRUE), Bool(FALSE)},
        q \in { <<"user", " ", "{", " ", "name", " ", "}">>,
                Text(<< <<"user", " ", "{">>, <<"name">>, <<"}">>, <<"z">> >>),
                <<"user", "(", "limit", ":", " ", "1", ")", " ", "{", " ", "name", " ", "}">> } }

\* query texts whose last block is not closed
OpenEnded ==
    { Text(<< <<"user", " ", "{">>, <<"name">>, <<"invalidSyntax">> >>),
      Text(<< <<"user", " ", "{">>, <<"name">> >>),
      Text(<< <<"name">>, <<"user", " ", "{">> >>),
      Text(<< <<"user", " ", "{">>, <<"details", " ", "{">>, <<"name">>, <<"}">> >>) }
OpenEndedInputs ==
    { In(UserData(t, S1("John")), Str(q), Undef) : t \in {Undef, S1("Top")}, q \in OpenEnded }

\* query texts that define their fragments with  fragment Name { ... }
ManagerDef == << <<"fragment", " ", "managerFields", " ", "{">>, <<"name">>, <<"email">>, <<"}">> >>
DepartmentDef ==
    << <<"fragment", " ", "departmentFields", " ", "{">>, <<"name">>,
       <<"manager", " ", "{", " ", "...", "managerFields", " ", "}">>, <<"}">> >>
Department(name, manager) ==
    Obj(<<KV("name", S1(name)),
          KV("manager", Obj(<<KV("name", S1(manager)), KV("email", S1("mail"))>>))>>)
DefinedInputs ==
    { In(Department("Engineering", "Alex"),
         Str(Text(ManagerDef \o << <<"manager", " ", "{", " ", "...", "managerFields", " ", "}">> >>)),
         Undef),
      In(Department("Engineering", "Alex"),
         Str(Text(ManagerDef \o DepartmentDef \o << <<"...", "departmentFields">> >>)),
         Undef),
      In(Obj(<<KV("departments", Arr(<<Department("Engineering", "Alex"),
                                       Department("Design", "Maria")>>))>>),
         Str(Text(ManagerDef \o DepartmentDef
                  \o << <<"departments", " ", "{", " ", "...", "departmentFields", " ", "}">> >>)),
         Undef) }

\* blocks whose fields follow the opening brace on the same line, each with
\* the same block written one opener, one field and one closer per line
CompactPairs ==
    { << Text(<< <<"items", " ", "{", " ", "id", ",", " ", "value">>, <<"}">> >>),
         Text(<< <<"items", " ", "{">>, <<"id">>, <<"value">>, <<"}">> >>) >>,
      << Text(<< <<"items", " ", "{", " ", "id">>, <<"}">> >>),
         Text(<< <<"items", " ", "{">>, <<"id">>, <<"}">> >>) >>,
      << Text(<< <<"a", " ", "{", " ", "b", " ", "{", " ", "c", " ", "{", " ", "v">>,
                 <<"}", " ", "}", " ", "}">> >>),
         Text(<< <<"a", " ", "{">>, <<"b", " ", "{">>, <<"c", " ", "{">>, <<"v">>,
                 <<"}">>, <<"}">>, <<"}">> >>) >> }
CompactData ==
    Obj(<<KV("items", Arr(<<Obj(<<KV("id", Num(1)), KV("value", S1("x"))>>)>>)),
          KV("a", Obj(<<KV("b", Obj(<<KV("c", Obj(<<KV("v", S1("deep"))>>))>>))>>))>>)
CompactInputs ==
    { In(CompactData, Str(p[i]), Undef) : p \in CompactPairs, i \in {1, 2} }

\* expressions over names that the current data and the root may both hold
ScopeData(rv, rh, ri) ==
    Some(<<KV("v", rv), KV("hidden", rh), KV("info", ri),
           KV("user", Obj(<<KV("name", S1("John")), KV("hidden", Bool(FALSE)),
                            KV("info", Obj(<<KV("n", Num(1))>>))>>)),
           KV("posts", Arr(<<Item(1), Item(2), Item(3)>>))>>)
ScopeQueries ==
    { Obj(<<KV("posts", Obj(<<KV("filter", Str(<<"v", " ", ">", " ", "1">>))>>))>>),
      Str(<<"posts", "(", "filter", ":", " ", "\"", "v", " ", ">", " ", "1", "\"", ")",
            " ", "{", " ", "v", " ", "}">>),
      Str(Text(<< <<"user", " ", "{">>,
                  <<"name">> \o Annotation("skip", "if", W("hidden")), <<"}">> >>)),
      Str(Text(<< <<"user", " ", "{">>,
                  <<"name">> \o Annotation("include", "if", <<"!", "hidden">>), <<"}">> >>)),
      Str(Text(<< <<"user", " ", "{">>, <<"x", ":", " ", "info", ".", "n">>, <<"}">> >>)),
      Str(<<"user", " ", "{", " ", "x", ":", " ", "info", ".", "n", " ", "}">>) }
ScopeInputs ==
    { In(ScopeData(rv, rh, ri), q, Undef) :
        rv \in {Undef, Num(0), Num(5)}, rh \in {Undef, Bool(TRUE)},
        ri \in {Undef, Obj(<<KV("n", Num(7))>>)}, q \in ScopeQueries }

\* one Directive with a path, with and without a default and a transform,
\* over data that may hold a property named value
DefaultData ==
    { Some(<<KV("a", a), KV("value", v), KV("name", S1("John"))>>) :
        a \in {Undef, Null, Num(0), Bool(FALSE), Str(<<>>), S1("A")},
        v \in {Undef, S1("V")} }
Transforms ==
    { W("value"), <<"!", "value">>, <<"value", " ", "===", " ", "\"", "D", "\"">>,
      W("unknownVar"), <<"value", " ", ">">> }
DefaultInputs ==
    { In(d, Obj(<<KV("x", Some(<<KV("path", S1("a")), KV("default", df),
                                 KV("transform", tf)>>))>>), Undef) :
        d \in DefaultData, df \in {Undef, S1("D"), Num(0)},
        tf \in {Undef} \cup {Str(t) : t \in Transforms} }

\* filters that give a boolean, a number, a text, an object or an error
TagItem(n, tag, o) == Some(<<KV("n", Num(n)), KV("tag", Str(tag)), KV("o", o)>>)
FilterData ==
    Obj(<<KV("posts", Arr(<<TagItem(0, <<>>, Undef), TagItem(1, W("t"), Obj(<<>>)),
                            TagItem(2, W("t"), Undef)>>))>>)
TruthTexts ==
    { W("n"), W("tag"), W("o"), <<"n", " ", ">", " ", "1">>, W("unknownVar"),
      <<"n", " ", "&&", " ", "tag">>, <<"!", "n">> }
FilterInputs ==
    { In(FilterData, Obj(<<KV("posts", Some(<<KV("filter", Str(f)), KV("nested", n)>>))>>),
         Undef) : f \in TruthTexts, n \in {Undef, Obj(<<KV("n", S1("n"))>>)} }

\* blocks whose expressions name the key that opened the block: an object
\* block, an array block and a block inside a block, over data whose top
\* level may hold the inner block's key
KeyedData(top) ==
    Some(<<KV("details", top),
           KV("user", Obj(<<KV("name", S1("John")),
                            KV("details", Obj(<<KV("name", S1("Johnny"))>>))>>)),
           KV("posts", Arr(<<Item(1), Item(2)>>))>>)
KeyedQueries ==
    { <<"user", " ", "{", " ", "x", ":", " ", "user", ".", "name", " ", "}">>,
      Text(<< <<"user", " ", "{">>, <<"x", ":", " ", "user", ".", "name">>, <<"}">> >>),
      <<"posts", " ", "{", " ", "x", ":", " ", "posts", ".", "v", " ", "}">>,
      Text(<< <<"user", " ", "{">>, <<"details", " ", "{">>,
              <<"x", ":", " ", "details", ".", "name">>, <<"}">>, <<"}">> >>),
      Text(<< <<"user", " ", "{">>, <<"details", " ", "{">>,
              <<"name">> \o Annotation("skip", "if", W("details")), <<"}">>, <<"}">> >>),
      Text(<< <<"user", " ", "{">>, <<"details", " ", "{">>,
              <<"name">> \o Annotation("include", "if", W("details")), <<"}">>, <<"}">> >>),
      Text(<< <<"user", " ", "{">>,
              <<"name">> \o Annotation("skip", "if", <<"!", "user">>), <<"}">> >>),
      Text(<< <<"posts", " ", "{">>,
              <<"v">> \o Annotation("include", "if", <<"posts", ".", "v", " ", ">", " ", "1">>),
              <<"}">> >>) }
KeyedInputs ==
    { In(KeyedData(top), Str(q), Undef) :
        top \in {Undef, Obj(<<KV("name", S1("Other"))>>)}, q \in KeyedQueries }

\* expressions inside object blocks, array items, fragments and blocks of
\* blocks that read a top-level key of the data, by its name and through root
AppPath == <<"settings", ".", "app">>
RootPath == <<"root", ".", "settings", ".", "app">>
RootData ==
    Obj(<<KV("settings", Obj(<<KV("app", S1("Demo"))>>)),
          KV("user", Obj(<<KV("name", S1("John")),
                           KV("details", Obj(<<KV("name", S1("Johnny"))>>))>>)),
          KV("posts", Arr(<<Item(1), Item(2)>>))>>)
RootFragments ==
    Obj(<<KV("f", Obj(<<KV("z", Str(AppPath))>>)),
          KV("g", Str(<<"w", ":", " ">> \o RootPath))>>)
RootQueries ==
    { Str(Text(<< <<"user", " ", "{">>, <<"x", ":", " ">> \o AppPath,
                  <<"details", " ", "{">>, <<"y", ":", " ">> \o RootPath, <<"...", "f">>,
                  <<"}">>, <<"}">> >>)),
      Str(<<"posts", " ", "{", " ", "a", ":", " ">> \o AppPath \o <<" ", "}">>),
      Str(Text(<< <<"posts", " ", "{">>, <<"a", ":", " ">> \o RootPath, <<"...", "g">>,
                  <<"}">> >>)),
      Str(Text(<< <<"...", "f">>, <<"...", "g">>,
                  <<"user", " ", "{", " ", "...", "g", " ", "}">> >>)),
      Obj(<<KV("user", Obj(<<KV("details", Obj(<<KV("q", Str(RootPath)),
                                                 KV("r", Str(AppPath))>>))>>))>>),
      Obj(<<KV("posts", Obj(<<KV("nested", Obj(<<KV("a", Str(AppPath)),
                                                 KV("__fragments", Arr(<<S1("f")>>))>>))>>))>>) }
RootInputs == { In(RootData, q, RootFragments) : q \in RootQueries }

\* block openers that carry an annotation, at the top level and inside a
\* block, without and with arguments before the annotation
OpenerData(flag) ==
    Obj(<<KV("flag", Bool(flag)), KV("name", S1("Top")),
          KV("manager", Obj(<<KV("name", S1("Alex")), KV("email", S1("mail"))>>)),
          KV("posts", Arr(<<Item(1), Item(2)>>))>>)
OpenerQueries ==
    { Text(<< <<"manager">> \o Annotation("skip", "if", W("flag")) \o <<" ", "{">>,
              <<"email">>, <<"}">> >>),
      Text(<< <<"manager">> \o Annotation("include", "if", W("flag")) \o <<" ", "{">>,
              <<"email">>, <<"}">>, <<"flag">> >>),
      Text(<< <<"posts", "(", "limit", ":", " ", "1", ")">>
                  \o Annotation("skip", "if", W("flag")) \o <<" ", "{">>,
              <<"v">>, <<"}">> >>),
      Text(<< <<"posts", "(", "limit", ":", " ", "1", ")">>
                  \o Annotation("include", "if", W("flag")) \o <<" ", "{">>,
              <<"v">>, <<"}">> >>) }
OpenerInputs ==
    { In(OpenerData(b), Str(q), Undef) : b \in BOOLEAN, q \in OpenerQueries }

\* field lines  alias: name @D(...)  for skip, include and default, and a
\* line  name @transform(...)  without an alias
AliasedLines ==
    { <<"x", ":", " ", "name">> \o Annotation("skip", "if", c) : c \in {W("flag"), <<"!", "flag">>} }
      \cup
    { <<"x", ":", " ", "name">> \o Annotation("include", "if", c) : c \in {W("flag"), <<"!", "flag">>} }
      \cup
    { <<"x", ":", " ", "nope">> \o Annotation("default", "value", W("D")),
      <<"x", ":", " ", "name">> \o Annotation("default", "value", W("D")),
      <<"name">> \o Annotation("transform", "fn", W("value")),
      <<"name">> \o Annotation("transform", "fn", <<"!", "value">>) }
AliasedInputs ==
    { In(FailData, Str(Text(<<l, <<"flag">> >>)), Undef) : l \in AliasedLines }
      \cup
    { In(FailData, Str(Text(<< <<"user", " ", "{">>, l, <<"}">> >>)), Undef) : l \in AliasedLines }

\* field lines that carry two annotations
MultiLines ==
    { <<"name">> \o Annotation("skip", "if", <<"!", "flag">>)
                 \o Annotation("default", "value", W("D")),
      <<"nope">> \o Annotation("default", "value", W("D"))
                 \o Annotation("skip", "if", W("flag")),
      <<"name">> \o Annotation("include", "if", W("flag"))
                 \o Annotation("transform", "fn", W("value")),
      <<"x", ":", " ", "name">> \o Annotation("transform", "fn", W("value"))
                               \o Annotation("skip", "if", W("flag")) }
MultiInputs ==
    { In(FailData, Str(Text(<<l, <<"flag">> >>)), Undef) : l \in MultiLines }

\* query texts with a line that is no production of the grammar, and block
\* headers with an argument that has no value
StrayLines == { <<"?", "?">>, <<"name", "!">>, <<"=", " ", "name">> }
BareArgHeaders ==
    { <<"posts", "(", a, ")", " ", "{">> : a \in {"first", "limit"} }
StrayInputs ==
    { In(FailData, Str(Text(<< <<"name">>, l, <<"flag">> >>)), Undef) : l \in StrayLines }
      \cup
    { In(FailData, Str(Text(<< <<"user", " ", "{">>, l, <<"name">>, <<"}">> >>)), Undef) :
        l \in StrayLines }
      \cup
    { In(FailData, Str(Text(<< h, <<"v">>, <<"}">> >>)), Undef) : h \in BareArgHeaders }
      \cup
    { In(FailData, Str(h \o <<" ", "v", " ", "}">>), Undef) : h \in BareArgHeaders }

\* block headers  posts(filter: "F", limit: L, skip: S)  with the arguments
\* in several orders, written as an inline block and as a block opener, for
\* filters that hold a comma, a colon and the other quote character
HeaderFilters ==
    { <<"v", " ", ">", " ", "1">>,
      <<"tag", " ", "===", " ", "'", "a", ",", "b", "'">>,
      <<"tag", " ", "===", " ", "'", "a", ":", "b", "'">> }
HeaderArg(name, f, l, s) ==
    CASE name = "filter" -> <<"filter", ":", " ", "\"">> \o f \o <<"\"">>
      [] name = "limit" -> <<"limit", ":", " ", NumSyms[l + 1]>>
      [] OTHER -> <<"skip", ":", " ", NumSyms[s + 1]>>
HeaderOrders ==
    { <<"filter", "limit", "skip">>, <<"limit", "skip", "filter">>,
      <<"skip", "filter", "limit">> }
Header(o, f, l, s) ==
    <<"posts", "(">> \o HeaderArg(o[1], f, l, s) \o <<",", " ">> \o HeaderArg(o[2], f, l, s)
        \o <<",", " ">> \o HeaderArg(o[3], f, l, s) \o <<")", " ", "{">>
\* the cases: the query text, and the filter, limit and skip it was written
\* from
HeaderCases ==
    { [text |-> IF inline THEN Header(o, f, p[1], p[2]) \o <<" ", "v", " ", "}">>
                ELSE Text(<<Header(o, f, p[1], p[2]), <<"v">>, <<"}">> >>),
       f |-> f, l |-> p[1], s |-> p[2]] :
        o \in HeaderOrders, f \in HeaderFilters, p \in {<<2, 1>>, <<1, 0>>},
        inline \in BOOLEAN }
HeaderData ==
    Obj(<<KV("posts", Arr(<<Obj(<<KV("v", Num(1)), KV("tag", Str(<<"a", ",", "b">>))>>),
                            Obj(<<KV("v", Num(2)), KV("tag", Str(<<"a", ":", "b">>))>>),
                            Obj(<<KV("v", Num(3)), KV("tag", S1("t"))>>)>>))>>)
HeaderInputs == { In(HeaderData, Str(c.text), Undef) : c \in HeaderCases }

\* data in which the name target stands at several depths: below an earlier
\* child and directly in a later one, as null in an earlier child, inside an
\* array, at the top, and nowhere
ResolveData ==
    { Obj(<<KV("a", Obj(<<KV("b", Obj(<<KV("target", S1("deep"))>>))>>)),
            KV("c", Obj(<<KV("target", S1("direct"))>>))>>),
      Obj(<<KV("a", Obj(<<KV("target", Null),
                          KV("b", Obj(<<KV("target", S1("hidden"))>>))>>)),
            KV("c", Obj(<<KV("target", S1("later"))>>))>>),
      Obj(<<KV("list", Arr(<<Item(1), Obj(<<KV("target", S1("inArr"))>>)>>)),
            KV("c", Obj(<<KV("target", S1("direct"))>>))>>),
      Obj(<<KV("target", Null), KV("a", Obj(<<KV("target", S1("x"))>>))>>),
      Obj(<<KV("target", S1("own")), KV("a", Obj(<<KV("target", S1("x"))>>))>>),
      Obj(<<KV("a", Obj(<<KV("b", Num(1))>>)), KV("s", S1("text"))>>),
      Obj(<<KV("a", Obj(<<KV("target", Null)>>)),
            KV("c", Obj(<<KV("d", Obj(<<KV("target", Num(0))>>))>>))>>) }
ResolveQueries ==
    { Str(Text(<< <<"target">>, <<"s">> >>)),
      Obj(<<KV("target", S1("target"))>>),
      Obj(<<KV("x", Obj(<<KV("path", S1("target"))>>))>>) }
ResolveInputs == { In(d, q, Undef) : d \in ResolveData, q \in ResolveQueries }

\* query texts with closing braces that close nothing, before, between and
\* after blocks, and with blocks closed in order
BraceTexts ==
    { Text(<< <<"}">>, <<"name">> >>),
      Text(<< <<"user", " ", "{">>, <<"name">>, <<"}">>, <<"}">>, <<"flag">> >>),
      Text(<< <<"}">>, <<"}">>, <<"user", " ", "{">>, <<"name">>, <<"}">>, <<"flag">> >>),
      Text(<< <<"user", " ", "{">>, <<"details", " ", "{">>, <<"name">>, <<"}">>, <<"}">>,
              <<"flag">> >>),
      Text(<< <<"name">>, <<"}", ",">>, <<"user", " ", "{">>, <<"}">>, <<"}">>, <<"flag">> >>) }
BraceInputs ==
    { In(UserData(S1("Top"), S1("John")), Str(q), Undef) : q \in BraceTexts }

\* pre-built trees whose entry user is a plain nested tree of bare names, one
\* of which may be the name of a Directive member, over a user that holds a
\* property of every such name
MemberNames ==
    {"path", "skipIf", "includeIf", "nested", "filter", "default", "transform", "limit", "skip"}
NamedUser ==
    Obj(<<KV("name", S1("John")), KV("age", Num(3)), KV("path", S1("home")),
          KV("skipIf", S1("a")), KV("includeIf", S1("b")), KV("nested", S1("n")),
          KV("filter", S1("f")), KV("default", S1("d")), KV("transform", S1("t")),
          KV("limit", Num(5)), KV("skip", Num(1))>>)
PlainInputs ==
    { In(Obj(<<KV("user", NamedUser), KV("z", Num(1))>>),
         Obj(<<KV("user", Obj(<<KV("name", S1("name")), KV(w, S1(w))>>)), KV("z", S1("z"))>>),
         Undef) : w \in MemberNames \cup {"age"} }

Inputs ==
    ArrayInputs \cup NestedInputs \cup CyclicQueries \cup FailureInputs
        \cup FragmentInputs \cup ComputedInputs \cup GateInputs
        \cup ChainInputs \cup FallbackInputs \cup OverrideInputs
        \cup AnnotatedInputs \cup LevelInputs \cup SharedInputs
        \cup DeptInputs \cup ScalarInputs \cup OpenEndedInputs
        \cup DefinedInputs \cup CompactInputs \cup ScopeInputs
        \cup DefaultInputs \cup FilterInputs \cup KeyedInputs \cup RootInputs
        \cup OpenerInputs \cup AliasedInputs \cup MultiInputs
        \cup StrayInputs \cup HeaderInputs \cup ResolveInputs
        \cup BraceInputs \cup PlainInputs

(***************************************************************************)
(* The top-level call shape(data, query, fragments), one step at a time.   *)
(***************************************************************************)
Init ==
    /\ heap = HeapInit
    /\ \E inp \in Inputs :
          /\ data = inp.data
          /\ query = inp.query
          /\ fragments = inp.fragments
    /\ pc = "start"
    /\ queryObj = Undef
    /\ result = Undef
    /\ fi = 1
    /\ ki = 1
    /\ lines = <<>>
    /\ li = 1
    /\ parser = ParserInit

\* const root = rootData ?? data, with rootData undefined
Root == data

\* typeof query !== "string": the tree is used as passed in
UsePrebuilt ==
    /\ pc = "start"
    /\ query.t # "str"
    /\ queryObj' = query
    /\ result' = Obj(<<>>)
    /\ pc' = "frags"
    /\ UNCHANGED <<heap, data, query, fragments, fi, ki, lines, li, parser>>

\* typeof query === "string": parseQuery(query, rootData ?? data) starts
BeginParse ==
    /\ pc = "start"
    /\ query.t = "str"
    /\ lines' = Lines(query.s)
    /\ pc' = "parse"
    /\ UNCHANGED <<heap, data, query, fragments, queryObj, result, fi, ki, li, parser>>

\* one iteration of parseQuery's loop over the lines
LineStep ==
    /\ \E st \in {ParseLine(parser, lines[li], Root)} :
          IF IsThrow(st)
          THEN /\ pc' = "threw"
               /\ result' = st
               /\ parser' = parser
          ELSE /\ pc' = "parse"
               /\ result' = result
               /\ parser' = st
    /\ li' = li + 1
    /\ UNCHANGED <<heap, data, query, fragments, queryObj, fi, ki, lines>>

AtLine(kind) ==
    pc = "parse" /\ li <= Len(lines) /\ LineKind(Normalize(lines[li])) = kind
ParseSkipField == AtLine("skip") /\ LineStep
ParseIncludeField == AtLine("include") /\ LineStep
ParseDefaultField == AtLine("default") /\ LineStep
ParseTransformField == AtLine("transform") /\ LineStep
ParseInlineBlock == AtLine("inline") /\ LineStep
ParseSpread == AtLine("spread") /\ LineStep
ParseBlockOpen == AtLine("open") /\ LineStep
ParseBlockClose == AtLine("close") /\ LineStep
ParseAlias == AtLine("alias") /\ LineStep
ParseField == AtLine("field") /\ LineStep

\* return root: shape goes on with the parsed tree
EndParse ==
    /\ pc = "parse"
    /\ li > Len(lines)
    /\ queryObj' = Materialize(parser.objs, QRef(1))
    /\ result' = Obj(<<>>)
    /\ pc' = "frags"
    /\ UNCHANGED <<heap, data, query, fragments, fi, ki, lines, li, parser>>

\* one iteration of queryObj.__fragments.forEach
FragmentStep ==
    /\ pc = "frags"
    /\ fi <= FragmentCount(queryObj, fragments)
    /\ \E r \in {MergeFragment(data, queryObj, fragments, Root, Undef, fi, result)} :
          /\ result' = Sealed(r)
          /\ heap' = Commit(heap, r)
          /\ pc' = IF IsThrow(r) THEN "threw" ELSE "frags"
    /\ fi' = fi + 1
    /\ UNCHANGED <<data, query, fragments, queryObj, ki, lines, li, parser>>

\* the fragment loop is over, or does not run
EnterLoop ==
    /\ pc = "frags"
    /\ fi > FragmentCount(queryObj, fragments)
    /\ pc' = "keys"
    /\ UNCHANGED <<heap, data, query, fragments, queryObj, result, fi, ki, lines, li, parser>>

CurKey == Keys(queryObj)[ki]
CurField == GetProp(queryObj, CurKey)
AtKey == pc = "keys" /\ ki <= Len(Keys(queryObj))

\* one iteration of the for-in loop over queryObj
KeyStep ==
    /\ \E r \in {StoreKey(data, queryObj, fragments, Root, ki, result)} :
          /\ result' = Sealed(r)
          /\ heap' = Commit(heap, r)
          /\ pc' = IF IsThrow(r) THEN "threw" ELSE "keys"
    /\ ki' = ki + 1
    /\ UNCHANGED <<data, query, fragments, queryObj, fi, lines, li, parser>>

\* if (key === "__fragments") continue
SkipFragmentsKey == AtKey /\ CurKey = W("__fragments") /\ KeyStep
\* typeof field === "function"
FieldFunction == AtKey /\ CurKey # W("__fragments") /\ CurField.t = "fn" /\ KeyStep
\* isDirectiveObject(field)
FieldDirective ==
    AtKey /\ CurKey # W("__fragments") /\ isDirectiveObject(CurField) /\ KeyStep
\* typeof field === "object" && field !== null
FieldObject ==
    /\ AtKey /\ CurKey # W("__fragments")
    /\ CurField.t \in {"obj", "arr"} /\ ~isDirectiveObject(CurField)
    /\ KeyStep
\* typeof field === "string"
FieldString == AtKey /\ CurKey # W("__fragments") /\ CurField.t = "str" /\ KeyStep
\* any other field: result[key] = safeTarget[key] ?? null
FieldOther ==
    /\ AtKey /\ CurKey # W("__fragments")
    /\ CurField.t \notin {"fn", "obj", "arr", "str"}
    /\ KeyStep

\* return result
Return ==
    /\ pc = "keys"
    /\ ki > Len(Keys(queryObj))
    /\ pc' = "done"
    /\ UNCHANGED <<heap, data, query, fragments, queryObj, result, fi, ki, lines, li, parser>>

Next ==
    \/ UsePrebuilt
    \/ BeginParse
    \/ ParseSkipField
    \/ ParseIncludeField
    \/ ParseDefaultField
    \/ ParseTransformField
    \/ ParseInlineBlock
    \/ ParseSpread
    \/ ParseBlockOpen
    \/ ParseBlockClose
    \/ ParseAlias
    \/ ParseField
    \/ EndParse
    \/ FragmentStep
    \/ EnterLoop
    \/ SkipFragmentsKey
    \/ FieldFunction
    \/ FieldDirective
    \/ FieldObject
    \/ FieldString
    \/ FieldOther
    \/ Return

Spec == Init /\ [][Next]_vars

(***************************************************************************)
(* Properties.                                                             *)
(***************************************************************************)
Done == pc = "done"
TopKeys == {queryObj.kv[i][1] : i \in DOMAIN queryObj.kv}
Has(field, w) == GetProp(field, W(w)) # Undef
\* a Directive with none of the listed members
Lacks(field, ws) == \A w \in ws : ~HasKey(field, W(w))

\* select, drop and take, as the specification states them
Select(items, Keep(_)) == SelectSeq(items, Keep)
Drop(items, n) == SubSeq(items, n + 1, Len(items))
Take(items, n) == SubSeq(items, 1, IF n < Len(items) THEN n ELSE Len(items))

\* the top-level keys whose Directive sets filter, skip and limit over an
\* array of the data
PagedKeys ==
    {k \in TopKeys :
        LET field == GetProp(queryObj, k)
        IN  /\ field.t = "obj"
            /\ Has(field, "filter") /\ Truthy(GetProp(field, W("filter")))
            /\ GetProp(field, W("skip")).t = "num" /\ GetProp(field, W("skip")).n >= 0
            /\ GetProp(field, W("limit")).t = "num" /\ GetProp(field, W("limit")).n >= 0
            /\ Lacks(field, {"path", "skipIf", "includeIf", "default", "transform"})
            /\ IsArray(GetProp(data, k))}
\* take(limit, drop(skip, select(filter, array))) for a key of PagedKeys
Survivors(k) ==
    LET field == GetProp(queryObj, k)
        Keep(item) == Truthy(evalNestedField(GetProp(field, W("filter")).s, item, data))
    IN  Take(Drop(Select(Deref(GetProp(data, k)).items, Keep),
                  GetProp(field, W("skip")).n),
             GetProp(field, W("limit")).n)

\* C1: an array Directive with filter, skip and limit outputs
\* take(limit, drop(skip, select(filter, array))) in the original order, and
\* with nested set one individually shaped element per surviving item
C1_PipelineOrder ==
    Done =>
        \A k \in PagedKeys :
            LET nested == GetProp(GetProp(queryObj, k), W("nested"))
                out == GetProp(result, k)
            IN  IF Truthy(nested)
                THEN /\ out.t = "arr"
                     /\ Len(out.items) = Len(Survivors(k))
                     /\ \A i \in DOMAIN out.items :
                           out.items[i] = shapeAt(Survivors(k)[i], nested, fragments, data, k)
                ELSE out = Arr(Survivors(k))

\* the specification's example: filter v > 1, skip 1, limit 2 over v = 1..5
C1_Witness ==
    /\ Done
    /\ W("posts") \in PagedKeys
    /\ GetProp(GetProp(queryObj, W("posts")), W("skip")) = Num(1)
    /\ GetProp(GetProp(queryObj, W("posts")), W("limit")) = Num(2)
    /\ GetProp(result, W("posts")) = Arr(<<Item(3), Item(4)>>)

\* the top-level keys that open a nested block (no other Directive member)
\* over an object of the data
BlockKeys ==
    {k \in TopKeys :
        LET field == GetProp(queryObj, k)
        IN  /\ field.t = "obj"
            /\ Truthy(GetProp(field, W("nested")))
            /\ Lacks(field, {"path", "skipIf", "includeIf", "filter", "default",
                              "transform", "limit", "skip"})
            /\ Deref(GetProp(data, k)).t = "obj"}
\* the bare field names of a tree: entries "name" stored under key name
BareNames(tree) ==
    {tree.kv[i][1] : i \in {j \in DOMAIN tree.kv : tree.kv[j][2] = Str(tree.kv[j][1])}}

\* C2: a bare field name inside a nested block yields the current object's
\* own value whenever that value is not null, whatever the root data holds
\* under the same name
C2_CurrentDataFirst ==
    Done =>
        \A k \in BlockKeys :
            \A c \in BareNames(GetProp(GetProp(queryObj, k), W("nested"))) :
                ~IsNullish(GetProp(GetProp(data, k), c))
                    => GetProp(GetProp(result, k), c) = GetProp(GetProp(data, k), c)

\* C4: with data that holds a reference cycle, shape returns a result (it
\* does not end in an exception), whether or not the query's fields exist
C4_CyclicDataSafe == (data = CyclicData) => pc # "threw"

KeySet(o) == {Keys(o)[i] : i \in DOMAIN Keys(o)}
\* the keys the resolved fragments of the top level produce
FragmentKeys ==
    UNION { LET name == GetProp(queryObj, W("__fragments")).items[i]
                fragQuery == GetProp(fragments, name.s)
            IN  IF Truthy(fragQuery)
                THEN KeySet(shapeAt(data, fragQuery, fragments, data, Undef))
                ELSE {}
            : i \in 1..FragmentCount(queryObj, fragments) }

\* C3: the returned object's keys are the keys of the tree (without the
\* fragment list) and of its resolved fragments, and an unresolved key is
\* present with the value null
C3_ShapeMirrorsQuery ==
    Done =>
        /\ KeySet(result) = (TopKeys \ {W("__fragments")}) \cup FragmentKeys
        /\ \A k \in KeySet(result) : GetProp(result, k) # Undef

\* does the expression raise in the scope of evalNestedField
Fails(expr, d, root) ==
    IsThrow(Evaluate(expr, <<root, d>>, Obj(<<KV("data", d), KV("root", root)>>)))
\* the field without one of its members
Without(field, w) == Obj(SelectSeq(field.kv, LAMBDA e : e[1] # W(w)))
\* the value the key's Directive has before its transform
Untransformed(k) ==
    ShapeField(data, k, Without(GetProp(queryObj, k), "transform"), fragments, data)
\* the top-level keys whose transform raises
FailedTransformKeys ==
    {k \in TopKeys :
        LET field == GetProp(queryObj, k)
        IN  /\ field.t = "obj" /\ Truthy(GetProp(field, W("transform")))
            /\ ~IsNullish(Untransformed(k))
            /\ IsThrow(Evaluate(GetProp(field, W("transform")).s, <<data>>,
                                Obj(<<KV("value", Untransformed(k)), KV("data", data)>>)))}
\* the top-level keys whose computed expression, skipIf, includeIf or
\* filter raises
FailedKeys ==
    {k \in TopKeys :
        LET field == GetProp(queryObj, k)
        IN  \/ field.t = "fn" /\ Fails(field.expr, data, data)
            \/ /\ field.t = "obj"
               /\ \/ \E w \in {"skipIf", "includeIf"} :
                        /\ Truthy(GetProp(field, W(w)))
                        /\ Fails(GetProp(field, W(w)).s, data, data)
                  \/ /\ Truthy(GetProp(field, W("filter")))
                     /\ GetProp(field, W("path")).t = "str"
                     /\ IsArray(GetProp(data, GetProp(field, W("path")).s))
                     /\ \E item \in Range(Deref(GetProp(data, GetProp(field, W("path")).s)).items) :
                           Fails(GetProp(field, W("filter")).s, item, data)}
\* the query without the keys of a set
QueryWithout(ks) == Obj(SelectSeq(queryObj.kv, LAMBDA e : e[1] \notin ks))

\* C5: on acyclic data shape never raises; a key whose expression fails is
\* null (the untransformed value for a transform) and every other key has
\* the value it has without the failing key
C5_FailureIsolated ==
    /\ data # CyclicData => pc # "threw"
    /\ (Done /\ data # CyclicData) =>
          /\ \A k \in FailedKeys : GetProp(result, k) = Null
          /\ \A k \in FailedTransformKeys : GetProp(result, k) = Untransformed(k)
          /\ \A k \in KeySet(result) \ (FailedKeys \cup FailedTransformKeys) :
                GetProp(result, k) =
                    GetProp(shapeAt(data, QueryWithout(FailedKeys \cup FailedTransformKeys),
                                    fragments, Undef, Undef), k)

\* C6: a computed field over an absent property of an existing object is
\* null: the value of a computed field is never undefined
C6_ComputedNeverUndefined ==
    Done => \A k \in TopKeys :
                GetProp(queryObj, k).t = "fn" => GetProp(result, k) # Undef

\* the top-level Directives whose skipIf holds, and whose includeIf fails
Condition(k, w) == GetProp(GetProp(queryObj, k), W(w))
Holds(k, w) ==
    /\ isDirectiveObject(GetProp(queryObj, k))
    /\ Condition(k, w).t = "str"
    /\ Condition(k, w).s # <<>>
    /\ Truthy(evalNestedField(Condition(k, w).s, data, data))
Fails1(k, w) ==
    /\ isDirectiveObject(GetProp(queryObj, k))
    /\ Condition(k, w).t = "str"
    /\ Condition(k, w).s # <<>>
    /\ ~Truthy(evalNestedField(Condition(k, w).s, data, data))

\* C7: a key whose skipIf holds is null whatever its includeIf says, a key
\* whose includeIf fails is null, and neither takes its default or its path
C7_SkipWins ==
    Done =>
        \A k \in TopKeys \ {W("__fragments")} :
            (Holds(k, "skipIf") \/ Fails1(k, "includeIf")) => GetProp(result, k) = Null
\* a skipped key that has an includeIf that holds, a default and a path that
\* resolves
C7_Witness ==
    /\ Done
    /\ \E k \in TopKeys :
          /\ Holds(k, "skipIf") /\ Holds(k, "includeIf")
          /\ Condition(k, "default") = S1("D")
          /\ Condition(k, "path").t = "str"
          /\ ~IsNullish(GetProp(data, Condition(k, "path").s))
          /\ GetProp(result, k) = Null

\* the value of one alternative of a chain over flat data: the content of a
\* quoted text, the property of a bare name, the member of a dotted name
IsQuoted(part) == Len(part) >= 2 /\ part[1] \in Quotes /\ part[Len(part)] = part[1]
AltValue(part) ==
    IF IsQuoted(part) THEN Str(SubSeq(part, 2, Len(part) - 1))
    ELSE IF Len(part) = 1 THEN GetProp(data, part)
    ELSE GetProp(GetProp(data, <<part[1]>>), <<part[3]>>)
RECURSIVE FirstAlternative(_, _)
FirstAlternative(alts, i) ==
    IF i > Len(alts) THEN Null
    ELSE IF ~IsNullish(AltValue(alts[i])) THEN AltValue(alts[i])
    ELSE FirstAlternative(alts, i + 1)
ChainCase(c) ==
    /\ data \in ChainData
    /\ queryObj = Obj(<<KV("x", Obj(<<KV("path", Str(Joined(c)))>>))>>)

\* C8: a path of alternatives gives the leftmost alternative that is neither
\* absent nor null (false, 0 and "" are taken), a quoted alternative gives
\* its content, and the key is null when no alternative gives a value
C8_LeftmostNonNull ==
    Done => \A c \in Chains : ChainCase(c) => GetProp(result, W("x")) = FirstAlternative(c, 1)
\* the chain a || b stops at a = 0 although b has a value
C8_Witness ==
    /\ Done
    /\ ChainCase(<<W("a"), W("b")>>)
    /\ GetProp(data, W("a")) = Num(0)
    /\ GetProp(data, W("b")) = S1("B")
    /\ GetProp(result, W("x")) = Num(0)

FallbackCase(c) == data \in FallbackData /\ query = Str(FallbackText(c))
\* C9: the field line  x: p1 || p2 || "lit"  gives the leftmost alternative
\* that is neither absent nor null, whether the alternatives are bare or
\* dotted and whether or not the quoted text holds a dot
C9_FallbackUniform ==
    Done =>
        \A c \in FallbackChains :
            FallbackCase(c) => GetProp(result, W("x")) = FirstAlternative(c, 1)

\* C10: a key named by the block and produced by one of its fragments has
\* the value of the block's field, wherever the spread stands and also when
\* that value is null
C10_ExplicitOverridesFragment ==
    Done =>
        \A k \in TopKeys \ {W("__fragments")} :
            GetProp(result, k) =
                GetProp(shapeAt(data, QueryWithout({W("__fragments")}), fragments, Undef, Undef), k)
\* the spread follows the field, the fragment gives a text and the field null
C10_Witness ==
    /\ Done
    /\ query.t = "str"
    /\ Len(Lines(query.s)) = 2
    /\ Lines(query.s)[2][1] = "..."
    /\ W("label") \in TopKeys \cap FragmentKeys
    /\ GetProp(shapeAt(data, GetProp(fragments, W("f")), fragments, data, Undef), W("label"))
          = S1("John")
    /\ GetProp(result, W("label")) = Null

\* the names a tree spreads
SpreadNames(tree) ==
    IF IsArray(GetProp(tree, W("__fragments")))
    THEN {GetProp(tree, W("__fragments")).items[i].s :
             i \in DOMAIN GetProp(tree, W("__fragments")).items}
    ELSE {}
\* the <<key, field>> entries the registered fragments of a tree contribute,
\* those of the fragments they spread included
RECURSIVE SpreadFields(_)
SpreadFields(tree) ==
    UNION { LET frag == GetProp(fragments, n)
            IN  IF frag.t = "obj"
                THEN {<<k, GetProp(frag, k)>> : k \in KeySet(frag) \ {W("__fragments")}}
                         \cup SpreadFields(frag)
                ELSE {}
            : n \in SpreadNames(tree) }
\* a Directive that only opens a block
OnlyNested(field) ==
    /\ field.t = "obj"
    /\ Truthy(GetProp(field, W("nested")))
    /\ Lacks(field, {"path", "skipIf", "includeIf", "filter", "default",
                      "transform", "limit", "skip"})
\* the output of one level holds the tree's keys and the keys of its
\* registered spreads, a spread field that names a property the level's
\* current data holds has that property's value, and so on in every block
RECURSIVE SpreadsExpanded(_, _, _)
SpreadsExpanded(tree, cur, out) ==
    /\ out.t = "obj"
    /\ KeySet(out) = (KeySet(tree) \ {W("__fragments")}) \cup {p[1] : p \in SpreadFields(tree)}
    /\ \A p \in SpreadFields(tree) :
          ( /\ p[1] \notin KeySet(tree)
            /\ \A q \in SpreadFields(tree) : q[1] = p[1] => q = p
            /\ p[2].t = "str" /\ Len(p[2].s) = 1
            /\ ~IsNullish(GetProp(cur, p[2].s)) )
          => GetProp(out, p[1]) = GetProp(cur, p[2].s)
    /\ \A k \in KeySet(tree) \ {W("__fragments")} :
          OnlyNested(GetProp(tree, k)) =>
              LET nested == GetProp(GetProp(tree, k), W("nested"))
                  v == Deref(GetProp(cur, k))
                  o == GetProp(out, k)
              IN  IF v.t = "arr"
                  THEN /\ o.t = "arr"
                       /\ Len(o.items) = Len(v.items)
                       /\ \A i \in DOMAIN v.items :
                             SpreadsExpanded(nested, v.items[i], o.items[i])
                  ELSE v.t = "obj" => SpreadsExpanded(nested, v, o)

\* C11: at every nesting level the output holds the keys of every spread
\* fragment the registry has, resolved against that level's current data;
\* several spreads give the union of their keys and a spread of an
\* unregistered name adds and changes nothing
C11_SpreadsAtEveryLevel ==
    (Done /\ fragments.t = "obj" /\ data # CyclicData)
        => SpreadsExpanded(queryObj, data, result)

\* C12: the objects the caller passed hold after every step what they held
\* before the call
C12_ArgumentsUnchanged == heap = HeapInit

\* the blocks inside the items of the top-level array blocks:
\* <<array key, item index, block key>>
ItemBlocks ==
    { b \in UNION { UNION { { <<k, i, c>> :
                                 c \in KeySet(GetProp(GetProp(queryObj, k), W("nested"))) } :
                             i \in DOMAIN Deref(GetProp(data, k)).items } :
                     k \in {x \in TopKeys : OnlyNested(GetProp(queryObj, x))
                                             /\ IsArray(GetProp(data, x))} } :
        OnlyNested(GetProp(GetProp(GetProp(queryObj, b[1]), W("nested")), b[3])) }
ItemOf(b) == Deref(GetProp(data, b[1])).items[b[2]]
OutputOf(b) == GetProp(GetProp(result, b[1]).items[b[2]], b[3])
BlockTree(b) ==
    GetProp(GetProp(GetProp(GetProp(queryObj, b[1]), W("nested")), b[3]), W("nested"))

\* C13: a block K inside the items of an array is computed from each item's
\* own K: null where the item's K is null, the item's own fields otherwise
C13_ItemBlockFromItem ==
    Done =>
        \A b \in ItemBlocks :
            IF GetProp(ItemOf(b), b[3]) = Null
            THEN OutputOf(b) = Null
            ELSE Deref(GetProp(ItemOf(b), b[3])).t = "obj" =>
                    \A c \in BareNames(BlockTree(b)) :
                        ~IsNullish(GetProp(GetProp(ItemOf(b), b[3]), c))
                            => GetProp(OutputOf(b), c) = GetProp(GetProp(ItemOf(b), b[3]), c)

\* the top-level block Directives (nested set, no path, default, transform
\* or condition) over a property that holds a text, a number or a boolean
ScalarBlocks ==
    {k \in TopKeys :
        /\ isDirectiveObject(GetProp(queryObj, k))
        /\ Truthy(GetProp(GetProp(queryObj, k), W("nested")))
        /\ Lacks(GetProp(queryObj, k), {"path", "skipIf", "includeIf", "default", "transform"})
        /\ Deref(data).t = "obj"
        /\ GetProp(data, k).t \in {"str", "num", "bool"}}

\* C14: a block over a scalar of the data does not raise and outputs null or
\* an empty array, never the scalar
C14_ScalarUnderBlock ==
    /\ (pc = "threw" /\ queryObj # Undef) => ScalarBlocks = {}
    /\ Done => \A k \in ScalarBlocks : GetProp(result, k) \in {Null, Arr(<<>>)}

\* how often a symbol occurs in a text
Count(s, c) == Cardinality({i \in DOMAIN s : s[i] = c})
\* the query is a text with more opening than closing braces
Unterminated == query.t = "str" /\ Count(query.s, "{") > Count(query.s, "}")

\* C15: a query text with a block left open does not raise and gives the
\* empty object
C15_UnterminatedGivesEmpty ==
    Unterminated => (pc # "threw" /\ (Done => result = Obj(<<>>)))

\* equal values, whatever the order of their keys
RECURSIVE Same(_, _)
Same(a, b) ==
    IF a.t = "obj" /\ b.t = "obj"
    THEN /\ KeySet(a) = KeySet(b)
         /\ \A k \in KeySet(a) : Same(GetProp(a, k), GetProp(b, k))
    ELSE IF a.t = "arr" /\ b.t = "arr"
    THEN /\ Len(a.items) = Len(b.items)
         /\ \A i \in DOMAIN a.items : Same(a.items[i], b.items[i])
    ELSE a = b
\* the keys of the tree that stand for a definition  fragment Name { ... }
DefinitionKeys == {k \in TopKeys : Len(k) = 3 /\ k[1] = "fragment" /\ k[2] = " "}
\* the registry the definitions of the query text amount to
DefinedRegistry ==
    Obj([i \in DOMAIN SelectSeq(queryObj.kv, LAMBDA e : e[1] \in DefinitionKeys) |->
            <<W(SelectSeq(queryObj.kv, LAMBDA e : e[1] \in DefinitionKeys)[i][1][3]),
              GetProp(SelectSeq(queryObj.kv, LAMBDA e : e[1] \in DefinitionKeys)[i][2],
                      W("nested"))>>])

\* C16: a definition  fragment Name { ... }  in the query text adds no key
\* to the output, and the spreads of the text expand to the definitions'
\* fields without a registry argument
C16_FragmentsDefinedInText ==
    (Done /\ DefinitionKeys # {} /\ fragments = Undef) =>
        /\ KeySet(result) \cap DefinitionKeys = {}
        /\ Same(result,
                shapeAt(data, QueryWithout(DefinitionKeys), DefinedRegistry, Undef, Undef))

Parsed == pc \in {"frags", "keys", "done"}

\* C17: a block whose fields start on the opener's line and whose closing
\* braces stand on a later line compiles to the tree of the same block
\* written with one opener, one field and one closer per line
C17_CompactBlockSameTree ==
    Parsed =>
        \A p \in CompactPairs :
            query = Str(p[1]) => queryObj = parseQuery(p[2], data)

\* the value of an expression when the names of the current data come
\* before the names of the root
ScopedValue(expr, cur) ==
    Caught(Evaluate(expr, <<cur, data>>, Obj(<<KV("data", cur), KV("root", data)>>)))
\* the top-level array Directives with a filter and no other step but nested
FilterKeys ==
    {k \in TopKeys :
        /\ isDirectiveObject(GetProp(queryObj, k))
        /\ GetProp(GetProp(queryObj, k), W("filter")).t = "str"
        /\ Lacks(GetProp(queryObj, k), {"path", "skipIf", "includeIf", "default",
                                         "transform", "limit", "skip"})
        /\ IsArray(GetProp(data, k))}
Kept(k) ==
    SelectSeq(Deref(GetProp(data, k)).items,
              LAMBDA item : Truthy(ScopedValue(GetProp(GetProp(queryObj, k), W("filter")).s, item)))
\* the field c of block k has the one member w, a text
Sole(k, c, w) ==
    /\ GetProp(GetProp(GetProp(queryObj, k), W("nested")), c).t = "obj"
    /\ KeySet(GetProp(GetProp(GetProp(queryObj, k), W("nested")), c)) = {W(w)}
    /\ GetProp(GetProp(GetProp(GetProp(queryObj, k), W("nested")), c), W(w)).t = "str"
InBlock(k, c) == GetProp(GetProp(GetProp(queryObj, k), W("nested")), c)

\* C18: in a filter, a computed field, a skipIf and an includeIf, a name that
\* the current data (or the current item) and the root both hold has the
\* current data's value
C18_CurrentShadowsRoot ==
    Done =>
        /\ \A k \in FilterKeys :
              /\ GetProp(result, k).t = "arr"
              /\ Len(GetProp(result, k).items) = Len(Kept(k))
              /\ ~Truthy(GetProp(GetProp(queryObj, k), W("nested")))
                    => GetProp(result, k) = Arr(Kept(k))
        /\ \A k \in BlockKeys :
              \A c \in KeySet(GetProp(GetProp(queryObj, k), W("nested"))) :
                  /\ InBlock(k, c).t = "fn" =>
                        GetProp(GetProp(result, k), c)
                            = ScopedValue(InBlock(k, c).expr, GetProp(data, k))
                  /\ Sole(k, c, "skipIf") =>
                        GetProp(GetProp(result, k), c)
                            = IF Truthy(ScopedValue(GetProp(InBlock(k, c), W("skipIf")).s,
                                                    GetProp(data, k)))
                              THEN Null
                              ELSE Coalesce(GetProp(GetProp(data, k), c), Null)
                  /\ Sole(k, c, "includeIf") =>
                        GetProp(GetProp(result, k), c)
                            = IF Truthy(ScopedValue(GetProp(InBlock(k, c), W("includeIf")).s,
                                                    GetProp(data, k)))
                              THEN Coalesce(GetProp(GetProp(data, k), c), Null)
                              ELSE Null

\* the top-level Directives that resolve, default and transform a scalar
PlainKeys ==
    {k \in TopKeys :
        /\ isDirectiveObject(GetProp(queryObj, k))
        /\ Lacks(GetProp(queryObj, k), {"skipIf", "includeIf", "nested", "filter",
                                         "limit", "skip"})
        /\ Deref(data).t = "obj"
        /\ ~IsThrow(ResolvePath(k, GetProp(GetProp(queryObj, k), W("path")), data, data))
        /\ ~IsObjectLike(ResolvePath(k, GetProp(GetProp(queryObj, k), W("path")), data, data))}
\* the value of a key of PlainKeys when default replaces exactly null and
\* undefined and transform is then evaluated with value bound to the value
Defaulted(k) ==
    LET r == ResolvePath(k, GetProp(GetProp(queryObj, k), W("path")), data, data)
    IN  IF IsNullish(r) /\ HasKey(GetProp(queryObj, k), W("default"))
        THEN GetProp(GetProp(queryObj, k), W("default"))
        ELSE r
Transformed(k) ==
    LET tf == GetProp(GetProp(queryObj, k), W("transform"))
        e == Evaluate(tf.s, <<Obj(<<KV("value", Defaulted(k))>>), data>>,
                      Obj(<<KV("data", data)>>))
    IN  IF tf.t # "str" \/ tf.s = <<>> \/ IsNullish(Defaulted(k)) THEN Defaulted(k)
        ELSE IF IsThrow(e) THEN Defaulted(k)
        ELSE e

\* C19: default replaces exactly a null or undefined resolved value; then
\* transform, when set and the value is not null, is evaluated with the
\* possibly defaulted value bound to value; a failing transform leaves the
\* value as it was, and a null value is not transformed
C19_DefaultThenTransform ==
    Done => \A k \in PlainKeys : GetProp(result, k) = Coalesce(Transformed(k), Null)

\* the items of array k for which the filter gives exactly true
StrictlyKept(k) ==
    SelectSeq(Deref(GetProp(data, k)).items,
              LAMBDA item :
                  evalNestedField(GetProp(GetProp(queryObj, k), W("filter")).s, item, data)
                      = Bool(TRUE))

\* C20: a filter keeps exactly the items for which its expression gives the
\* boolean true; an item for which it gives another truthy value, a falsy
\* value or an error is dropped
C20_FilterStrictlyTrue ==
    Done =>
        \A k \in FilterKeys :
            /\ GetProp(result, k).t = "arr"
            /\ Len(GetProp(result, k).items) = Len(StrictlyKept(k))
            /\ ~Truthy(GetProp(GetProp(queryObj, k), W("nested")))
                  => GetProp(result, k) = Arr(StrictlyKept(k))

\* does a text name the one-word key k
Mentions(expr, k) == Len(k) = 1 /\ \E i \in DOMAIN expr : expr[i] = k[1]
\* the value of an expression when the key that opened the block names the
\* block's current data
KeyedValue(expr, cur, k) ==
    Caught(Evaluate(expr, <<Obj(<< <<k, cur>> >>), data, cur>>,
                    Obj(<<KV("data", cur), KV("root", data)>>)))
\* a Directive whose one member w is a text
SoleText(field, w) ==
    field.t = "obj" /\ KeySet(field) = {W(w)} /\ GetProp(field, W(w)).t = "str"
\* in the block that key k opened over cur, and in the blocks inside it, the
\* expressions that name their block's key see the block's current data
\* under it
RECURSIVE KeyBound(_, _, _, _)
KeyBound(tree, cur, out, k) ==
    /\ out.t = "obj"
    /\ \A c \in KeySet(tree) \ {W("__fragments")} :
          /\ (GetProp(tree, c).t = "fn" /\ Mentions(GetProp(tree, c).expr, k))
                => GetProp(out, c) = KeyedValue(GetProp(tree, c).expr, cur, k)
          /\ (SoleText(GetProp(tree, c), "skipIf")
                /\ Mentions(GetProp(GetProp(tree, c), W("skipIf")).s, k))
                => GetProp(out, c)
                     = IF Truthy(KeyedValue(GetProp(GetProp(tree, c), W("skipIf")).s, cur, k))
                       THEN Null ELSE Coalesce(GetProp(cur, c), Null)
          /\ (SoleText(GetProp(tree, c), "includeIf")
                /\ Mentions(GetProp(GetProp(tree, c), W("includeIf")).s, k))
                => GetProp(out, c)
                     = IF Truthy(KeyedValue(GetProp(GetProp(tree, c), W("includeIf")).s, cur, k))
                       THEN Coalesce(GetProp(cur, c), Null) ELSE Null
          /\ OnlyNested(GetProp(tree, c)) =>
                LET nested == GetProp(GetProp(tree, c), W("nested"))
                    v == Deref(GetProp(cur, c))
                    o == GetProp(out, c)
                IN  IF v.t = "arr"
                    THEN /\ o.t = "arr"
                         /\ Len(o.items) = Len(v.items)
                         /\ \A i \in DOMAIN v.items : KeyBound(nested, v.items[i], o.items[i], c)
                    ELSE v.t = "obj" => KeyBound(nested, v, o, c)

\* C21: inside the block that output key K opened (an object block or each
\* item of an array block), K in a computed, skipIf or includeIf expression
\* is the block's current data, whether or not the root holds a key K
C21_BlockKeyNamesCurrent ==
    (Done /\ data # CyclicData) => KeyBound(queryObj, data, result, <<>>)

\* the expression of a computed field or of a text field
FieldExpr(f) == IF f.t = "fn" THEN f.expr ELSE IF f.t = "str" THEN f.s ELSE <<>>
\* the expression starts at root, or at a top-level key of the data that the
\* current data does not hold
ReadsRoot(expr, cur) ==
    /\ expr # <<>>
    /\ \/ expr[1] = "root" /\ ~HasKey(data, W("root")) /\ ~HasKey(cur, W("root"))
       \/ HasKey(data, W(expr[1])) /\ ~HasKey(cur, W(expr[1]))
\* the value of an expression over the top-level call's data alone
RootValue(expr) == Caught(Evaluate(expr, <<data>>, Obj(<<KV("root", data)>>)))
\* a fragment's tree, compiled when the registry holds it as a text
FragmentTree(n) ==
    IF GetProp(fragments, n).t = "str" THEN parseQuery(GetProp(fragments, n).s, data)
    ELSE GetProp(fragments, n)
\* in the output of one level, of its fragments and of the levels below,
\* every expression that reads the top-level data has the value it has over
\* the data of the top-level call
RECURSIVE RootSeen(_, _, _)
RootSeen(tree, cur, out) ==
    /\ out.t = "obj"
    /\ \A c \in KeySet(tree) \ {W("__fragments")} :
          /\ ( /\ ReadsRoot(FieldExpr(GetProp(tree, c)), cur)
               /\ ~IsNullish(RootValue(FieldExpr(GetProp(tree, c)))) )
                => GetProp(out, c) = RootValue(FieldExpr(GetProp(tree, c)))
          /\ OnlyNested(GetProp(tree, c)) =>
                LET nested == GetProp(GetProp(tree, c), W("nested"))
                    v == Deref(GetProp(cur, c))
                    o == GetProp(out, c)
                IN  IF v.t = "arr"
                    THEN /\ o.t = "arr"
                         /\ Len(o.items) = Len(v.items)
                         /\ \A i \in DOMAIN v.items : RootSeen(nested, v.items[i], o.items[i])
                    ELSE v.t = "obj" => RootSeen(nested, v, o)
          /\ (GetProp(tree, c).t = "obj" /\ ~isDirectiveObject(GetProp(tree, c)))
                => RootSeen(GetProp(tree, c), Coalesce(GetProp(cur, c), Obj(<<>>)),
                            GetProp(out, c))
    /\ fragments.t = "obj" =>
          \A n \in SpreadNames(tree) :
              FragmentTree(n).t = "obj" => RootSeen(FragmentTree(n), cur, out)

\* C22: in every recursive call of one top-level call (object descent, array
\* items, fragments, at any depth) root is the data of the top-level call:
\* an expression that reads a top-level key has that key's value
C22_RootThreaded ==
    (Done /\ data # CyclicData) => RootSeen(queryObj, data, result)

\* a block inside a block, an array item and a fragment have read
\* settings.app of the top-level data
C22_Witness ==
    /\ Done
    /\ data = RootData
    /\ \/ /\ HasKey(result, W("user"))
          /\ GetProp(GetProp(result, W("user")), W("x")) = S1("Demo")
          /\ GetProp(GetProp(GetProp(result, W("user")), W("details")), W("y")) = S1("Demo")
          /\ GetProp(GetProp(GetProp(result, W("user")), W("details")), W("z")) = S1("Demo")
       \/ /\ HasKey(result, W("posts"))
          /\ GetProp(result, W("posts")).t = "arr"
          /\ \A i \in {1, 2} :
                /\ GetProp(GetProp(result, W("posts")).items[i], W("a")) = S1("Demo")
                /\ GetProp(GetProp(result, W("posts")).items[i], W("w")) = S1("Demo")

\* a line that opens a block and carries a @skip or an @include annotation
AnnotatedOpener(line) ==
    /\ line # <<>> /\ line[Len(line)] = "{" /\ IsWord(line[1])
    /\ \/ AnyAnnotation(line, "skip", "if", {"\""}) # 0
       \/ AnyAnnotation(line, "include", "if", {"\""}) # 0
\* the member an annotation of the line asks for: undefined without the
\* annotation
Asked(line, name) ==
    IF AnyAnnotation(line, name, "if", {"\""}) = 0 THEN Undef
    ELSE Str(Quoted(line, AnyAnnotation(line, name, "if", {"\""}), name, "if", {"\""}))
\* the step over the line: the block's key holds a Directive with the
\* condition and a new empty nested tree, and that tree is the current one
OpensBlock(line) ==
    /\ pc' = "parse"
    /\ Len(parser'.stack) = Len(parser.stack) + 1
    /\ SubSeq(parser'.stack, 1, Len(parser.stack)) = parser.stack
    /\ parser'.objs[Current(parser')] = Obj(<<>>)
    /\ GetProp(parser'.objs[Current(parser)], W(line[1])).t = "obj"
    /\ GetProp(GetProp(parser'.objs[Current(parser)], W(line[1])), W("nested"))
          = QRef(Current(parser'))
    /\ GetProp(GetProp(parser'.objs[Current(parser)], W(line[1])), W("skipIf"))
          = Asked(line, "skip")
    /\ GetProp(GetProp(parser'.objs[Current(parser)], W(line[1])), W("includeIf"))
          = Asked(line, "include")

\* C23: parsing a block opener that carries an annotation stores under the
\* block's key a Directive with the condition and a nested tree and pushes
\* that tree, so that the lines up to the closing brace fill the nested tree
C23_AnnotatedOpenerPushes ==
    [][ (pc = "parse" /\ li <= Len(lines) /\ AnnotatedOpener(Normalize(lines[li])))
            => OpensBlock(Normalize(lines[li])) ]_vars

\* the annotations of a field line, the argument each takes, the quotes that
\* may hold it and the Directive member it sets
DirectiveNames == {"skip", "include", "default", "transform"}
ArgumentOf(D) ==
    CASE D \in {"skip", "include"} -> "if" [] D = "default" -> "value" [] OTHER -> "fn"
QuotesOf(D) == IF D = "default" THEN {"\"", "'"} ELSE {"\""}
MemberOf(D) ==
    CASE D = "skip" -> "skipIf" [] D = "include" -> "includeIf" [] OTHER -> D
Carried(line) ==
    {D \in DirectiveNames : AnyAnnotation(line, D, ArgumentOf(D), QuotesOf(D)) # 0}
\* the text between the quotes of annotation D of the line
ArgumentText(line, D) ==
    Quoted(line, AnyAnnotation(line, D, ArgumentOf(D), QuotesOf(D)), D, ArgumentOf(D),
           QuotesOf(D))
\* a field line (no block opener) that starts with a name and carries
\* annotations
AnnotatedField(line) ==
    /\ line # <<>> /\ IsWord(line[1]) /\ line[Len(line)] = ")"
    /\ Carried(line) # {}
IsAliased(line) == At(line, SkipBlanks(line, 2)) = ":"
\* the expression of an aliased line: the text between the colon and the
\* first annotation
AliasedExpr(line) ==
    Trim(SubSeq(line, SkipBlanks(line, 2) + 1, FirstIn(line, 1, {"@"}) - 1))
\* the step over the line: the current tree gains one entry under the line's
\* first name, a Directive with the members of the annotations in D and, for
\* an aliased line, the expression as its path
FieldStored(line, Ds) ==
    /\ pc' = "parse"
    /\ parser'.stack = parser.stack
    /\ KeySet(parser'.objs[Current(parser)])
          = KeySet(parser.objs[Current(parser)]) \cup {W(line[1])}
    /\ GetProp(parser'.objs[Current(parser)], W(line[1])).t = "obj"
    /\ \A D \in Ds :
          GetProp(GetProp(parser'.objs[Current(parser)], W(line[1])), W(MemberOf(D)))
              = Str(ArgumentText(line, D))
    /\ IsAliased(line) =>
          GetProp(GetProp(parser'.objs[Current(parser)], W(line[1])), W("path"))
              = Str(AliasedExpr(line))

\* C24: a field line  alias: expr @D(...)  with D one of skip, include,
\* default, transform adds exactly one entry, keyed by the alias, whose
\* Directive has expr as path and the annotation's argument; a line
\* name @D(...)  adds the entry under name
C24_AnnotatedFieldEntry ==
    [][ ( /\ pc = "parse" /\ li <= Len(lines)
          /\ AnnotatedField(Normalize(lines[li]))
          /\ Cardinality(Carried(Normalize(lines[li]))) = 1 )
            => FieldStored(Normalize(lines[li]), Carried(Normalize(lines[li]))) ]_vars

\* the argument of annotation D of the line: the text from its opening quote
\* to the first quote that a ")" follows
OwnArgument(line, D) ==
    SubSeq(line,
           AnnotationAt(line, AnyAnnotation(line, D, ArgumentOf(D), QuotesOf(D)), D,
                        ArgumentOf(D), QuotesOf(D))[1] + 1,
           Min({e \in DOMAIN line :
                   /\ e > AnnotationAt(line, AnyAnnotation(line, D, ArgumentOf(D), QuotesOf(D)),
                                       D, ArgumentOf(D), QuotesOf(D))[1]
                   /\ line[e] \in QuotesOf(D) /\ At(line, e + 1) = ")"}) - 1)
\* the step over the line: one entry under the line's first name, a
\* Directive that has every annotation's member with that annotation's own
\* argument
AllStored(line) ==
    /\ pc' = "parse"
    /\ parser'.stack = parser.stack
    /\ KeySet(parser'.objs[Current(parser)])
          = KeySet(parser.objs[Current(parser)]) \cup {W(line[1])}
    /\ GetProp(parser'.objs[Current(parser)], W(line[1])).t = "obj"
    /\ \A D \in Carried(line) :
          GetProp(GetProp(parser'.objs[Current(parser)], W(line[1])), W(MemberOf(D)))
              = Str(OwnArgument(line, D))

\* C25: a field line with two or more annotations gives one Directive under
\* the field's key that records every annotation, each with exactly its own
\* quoted argument
C25_EveryAnnotationKept ==
    [][ ( /\ pc = "parse" /\ li <= Len(lines)
          /\ AnnotatedField(Normalize(lines[li]))
          /\ Cardinality(Carried(Normalize(lines[li]))) >= 2 )
            => AllStored(Normalize(lines[li])) ]_vars

\* a line that is none of: block opener, block closer, inline block,
\* fragment spread, annotated field, alias line, bare field name
Unrecognized(line) ==
    /\ line # <<>>
    /\ line[Len(line)] # "{"
    /\ line # <<"}">>
    /\ InlineBlock(line)[2] = 0
    /\ line[1] # "..."
    /\ ~AnnotatedField(line)
    /\ ~(IsWord(line[1]) /\ IsAliased(line))
    /\ ~(Len(line) = 1 /\ IsWord(line[1]))

\* C26: parseQuery never raises, and a line that matches no production of
\* the grammar adds no entry to the tree and leaves the block stack as it is
C26_ParserTotalAndSkips ==
    [][ pc = "parse" =>
            /\ pc' # "threw"
            /\ (li <= Len(lines) /\ Unrecognized(Normalize(lines[li]))) => parser' = parser ]_vars

\* C27: a block header  key(filter: "F", limit: L, skip: S), in any order of
\* the arguments, inline or as an opener, gives a Directive whose filter is
\* the whole text F between the quotes and whose limit and skip are the
\* integers L and S
C27_HeaderArguments ==
    \A c \in HeaderCases :
        query = Str(c.text) =>
            /\ pc # "threw"
            /\ Parsed =>
                  /\ GetProp(GetProp(queryObj, W("posts")), W("filter")) = Str(c.f)
                  /\ GetProp(GetProp(queryObj, W("posts")), W("limit")) = Num(c.l)
                  /\ GetProp(GetProp(queryObj, W("posts")), W("skip")) = Num(c.s)

\* the places below a value where the search for key ends with a value: the
\* objects and arrays that define key as non-null and have no object above
\* them that defines key, each as <<path of child numbers, value>>
RECURSIVE Hits(_, _, _)
Hits(node, key, p) ==
    IF ~IsObjectLike(node) THEN {}
    ELSE IF GetProp(node, key) # Undef
    THEN (IF GetProp(node, key) = Null THEN {} ELSE {<<p, GetProp(node, key)>>})
    ELSE UNION {Hits(Children(node)[i], key, Append(p, i)) : i \in DOMAIN Children(node)}
\* p comes before q in a depth-first walk in key order
Before(p, q) ==
    \E i \in DOMAIN p \cap DOMAIN q : p[i] < q[i] /\ \A j \in 1..(i - 1) : p[j] = q[j]
\* the first non-null match of a depth-first search, null without a match
Found(ref, key) ==
    IF Hits(ref, key, <<>>) = {} THEN Null
    ELSE (CHOOSE h \in Hits(ref, key, <<>>) :
             \A g \in Hits(ref, key, <<>>) \ {h} : Before(h[1], g[1]))[2]
\* the top-level keys that output the search for a name: a bare name, or a
\* Directive whose only member is a one-word path
SearchedName(k) ==
    IF GetProp(queryObj, k).t = "str" THEN GetProp(queryObj, k).s
    ELSE GetProp(GetProp(queryObj, k), W("path")).s
SearchKeys ==
    {k \in TopKeys \ {W("__fragments")} :
        /\ \/ GetProp(queryObj, k) = Str(k)
           \/ /\ GetProp(queryObj, k).t = "obj"
              /\ KeySet(GetProp(queryObj, k)) = {W("path")}
              /\ GetProp(GetProp(queryObj, k), W("path")).t = "str"
        /\ Len(SearchedName(k)) = 1 /\ IsIdent(SearchedName(k)[1])}

\* C28: autoResolve(ref, key) is ref[key] when ref defines key; otherwise
\* the first non-null match of a depth-first search of ref's object and
\* array children in key order (a match below an earlier child before a
\* direct match in a later child), and null when nothing matches
C28_DepthFirstFirstMatch ==
    (Done /\ data # CyclicData /\ Deref(data).t = "obj") =>
        \A k \in SearchKeys : GetProp(result, k) = Found(data, SearchedName(k))

\* the match below the first child was returned, not the direct match of the
\* second child
C28_Witness ==
    /\ Done
    /\ W("target") \in SearchKeys
    /\ GetProp(GetProp(data, W("c")), W("target")) = S1("direct")
    /\ GetProp(GetProp(GetProp(data, W("a")), W("b")), W("target")) = S1("deep")
    /\ GetProp(result, W("target")) = S1("deep")

\* the lines of the query that open a block (they end with "{") and that
\* close one (the line "}"), and the number of blocks they leave open after
\* the first n lines
IsOpener(line) == line # <<>> /\ line[Len(line)] = "{"
IsCloser(line) == line = <<"}">>
OpenAfter(n) ==
    Cardinality({i \in 1..n : IsOpener(Normalize(lines[i]))})
        - Cardinality({i \in 1..n : IsCloser(Normalize(lines[i]))})
\* every closer closes an opener before it, and no opener is left open
Balanced ==
    /\ \A n \in 0..Len(lines) : OpenAfter(n) >= 0
    /\ OpenAfter(Len(lines)) = 0
\* the step over a closer that closes nothing changes nothing in the parser;
\* the step over a bare name with no block open adds the name to the root
StrayCloserIgnored ==
    /\ (AtLine("close") /\ Len(parser.stack) = 1) => parser' = parser
    /\ (AtLine("field") /\ Len(parser.stack) = 1) =>
          /\ parser'.stack = <<1>>
          /\ HasKey(parser'.objs[1], Normalize(lines[li]))

PlainTrees ==
    {k \in TopKeys \ {W("__fragments")} :
        /\ GetProp(queryObj, k).t = "obj"
        /\ KeySet(GetProp(queryObj, k)) # {}
        /\ BareNames(GetProp(queryObj, k)) = KeySet(GetProp(queryObj, k))
        /\ Deref(GetProp(data, k)).t = "obj"}

\* C30: an entry of a pre-built tree that is a plain nested tree is shaped
\* as a block over data[key]: the output has one key per key of the nested
\* tree, whatever the keys are named, each with the value data[key] holds
\* under it
C30_PlainTreeIsBlock ==
    (Done /\ query.t = "obj" /\ data # CyclicData) =>
        \A k \in PlainTrees :
            /\ GetProp(result, k).t = "obj"
            /\ KeySet(GetProp(result, k)) = KeySet(GetProp(queryObj, k))
            /\ \A c \in KeySet(GetProp(queryObj, k)) :
                  (~IsNullish(GetProp(GetProp(data, k), c)) /\ ~HasKey(data, c))
                      => GetProp(GetProp(result, k), c) = GetProp(GetProp(data, k), c)

====
